---- MODULE Spec2Model ----
(***************************************************************************)
(* A model of the deterministic normalization core of the Paraguay address *)
(* cleaner (src/scripts/csv_cleaner.py): the gazetteer, fuzzy_match,       *)
(* normalize_city_state, normalize_phone, extract_city_from_address,       *)
(* validate_and_dedupe and the pipeline of main.                           *)
(*                                                                         *)
(* A Python string is a sequence of one-character tokens.  An accented     *)
(* letter is one token written with a mark after the base letter: "e^" is  *)
(* e-acute, "n~" is n-tilde, "a~" is a-tilde.  A missing cell (pandas NaN) *)
(* is the value NaN.                                                       *)
(***************************************************************************)
EXTENDS Integers, Sequences, FiniteSets, TLC

VARIABLES
  pc,          \* position in the function or pipeline being run
  city_raw,    \* normalize_city_state: argument city_raw
  state_raw,   \* normalize_city_state: argument state_raw
  city,        \* normalize_city_state: local city
  state,       \* normalize_city_state: local state
  fz_text,     \* fuzzy_match: argument text
  fz_cands,    \* fuzzy_match: argument candidates
  fz_thr,      \* fuzzy_match: argument threshold
  fz_i,        \* fuzzy_match: number of candidates already scored
  best_match,  \* fuzzy_match: local best_match
  best_score,  \* fuzzy_match: local best_score, a fraction <<num, den>>
  phone_raw,         \* normalize_phone: argument phone_raw
  phone_candidates,  \* normalize_phone: local phone_candidates
  ph_i,              \* normalize_phone: candidates the first loop has handled
  valid_phones,      \* normalize_phone: local valid_phones
  parsed_log,        \* normalize_phone: cleaned candidates handed to the try block
  ph_out,            \* normalize_phone: the returned string
  columns,     \* main: df.columns
  df,          \* main: the frame df, a sequence of rows [index, data]
  df_valid,    \* validate_and_dedupe: local df_valid
  df_clean,    \* main: df_clean, the frame validate_and_dedupe returned
  output,      \* save_df: the rows written to the output file
  ad_parts,    \* normalize_address: argument address_parts
  ad_cleaned,  \* normalize_address: local cleaned_parts
  ad_combined, \* normalize_address: local combined
  ad_out,      \* normalize_address: the returned string
  ad_again,    \* normalize_address: what a second call on [ad_out] returns
  gm_function, \* response parsing: the function that runs
  gm_response, \* response parsing: what generate_content answered
  gm_text,     \* response parsing: local response_text
  gm_value,    \* response parsing: local result, as json.loads returned it
  gm_result,   \* response parsing: the returned value
  bp_file,     \* process_csv_file: the input file
  bp_size,     \* process_csv_file: argument batch_size
  bp_rows,     \* process_csv_file: local rows
  bp_batch,    \* process_csv_file: batch_num of the loop
  bp_i,        \* process_csv_batch: the place in the batch of the next row
  bp_processed,\* process_csv_batch: local processed_rows
  bp_all,      \* process_csv_file: local all_processed_rows
  bp_output,   \* process_csv_file: the rows written to the output file
  bp_return,   \* process_csv_file: the returned value
  gc_function, \* geocoding: the function that runs
  gc_reply,    \* geocoding: what the geocoding API answered
  gc_location_type, \* geocoding: local location_type
  gc_result,   \* geocoding: the returned value
  sc_script,   \* a script: its file
  sc_argv,     \* a script: what the command line holds
  sc_env,      \* a script: os.environ, for the names of the keys
  sc_file,     \* a script: the state of the input file
  sc_called,   \* a script: an external API was called
  sc_exit,     \* a script: the exit status, "" while it runs
  pn_phone,         \* clean_paraguay_phone: the phone of the row
  pn_response,      \* process_single_row: the answer of the language model
  pn_cleaned,       \* clean_paraguay_phone(phone), None before the call
  pn_again,         \* clean_paraguay_phone of that value, None before the call
  pn_result,         \* process_single_row: what the call returns, None before it
  pp_version,       \* ParallelCSVProcessor: the file that defines the class
  pp_rows,          \* process_csv_file: the rows of the input file
  pp_responses,     \* the answer of the language model for each row
  pp_size,          \* batch_size
  pp_workers,       \* max_workers
  pp_batch,         \* batch_num
  pp_future,        \* the future of each row: its state and its result
  pp_yielded,       \* the row indices that as_completed has yielded
  pp_batch_results, \* batch_results
  pp_all,           \* all_processed_rows
  pp_output,        \* the JSON file written
  pp_return,        \* the value returned, "" while it runs
  ra_script,        \* process_addresses: the script that defines it
  ra_rows,          \* rows: the rows of the input file
  ra_answers,       \* the answer of the language model for each row
  ra_file,          \* the output file: whether it exists, and its rows
  ra_before,        \* the output file when the run started
  ra_run,           \* 1 for the first run, 2 for the run repeated on its files
  ra_i,             \* i of the loop over the rows
  ra_processed,     \* processed_addresses
  ra_existing,      \* existing_data
  ra_new,           \* new_data
  ra_calls,         \* the values of i for which the API was called in this run
  ra_exit,          \* "" while the run goes on, then how it ended
  ch_rows,          \* split_csv: the data rows of the input file
  ch_size,          \* chunk_size
  ch_pos,           \* the data rows that the reader has yielded
  ch_chunk,         \* chunk
  ch_count,         \* chunk_count
  ch_chunks,        \* chunks, the list returned
  ch_files,         \* the chunk and result files on disk, by name
  ch_i,             \* process_chunks: i of the loop
  ch_results,       \* all_results
  ch_attempts,      \* the runs of the subprocess: chunk file and outcome
  ch_sleeps         \* the values of i after which the delay was waited

----------------------------------------------------------------------------
(* Characters and the library string functions the cleaner calls.          *)

NaN == <<"<NaN>">>
None == <<"<None>">>

LowerOf ==
  [c \in {"A","B","C","D","E","F","G","H","I","J","K","L","M","N","O","P","Q",
          "R","S","T","U","V","W","X","Y","Z","A^","E^","I^","O^","U^","N~","A~"} |->
     CASE c = "A" -> "a" [] c = "B" -> "b" [] c = "C" -> "c" [] c = "D" -> "d"
       [] c = "E" -> "e" [] c = "F" -> "f" [] c = "G" -> "g" [] c = "H" -> "h"
       [] c = "I" -> "i" [] c = "J" -> "j" [] c = "K" -> "k" [] c = "L" -> "l"
       [] c = "M" -> "m" [] c = "N" -> "n" [] c = "O" -> "o" [] c = "P" -> "p"
       [] c = "Q" -> "q" [] c = "R" -> "r" [] c = "S" -> "s" [] c = "T" -> "t"
       [] c = "U" -> "u" [] c = "V" -> "v" [] c = "W" -> "w" [] c = "X" -> "x"
       [] c = "Y" -> "y" [] c = "Z" -> "z" [] c = "A^" -> "a^" [] c = "E^" -> "e^"
       [] c = "I^" -> "i^" [] c = "O^" -> "o^" [] c = "U^" -> "u^"
       [] c = "N~" -> "n~" [] c = "A~" -> "a~"] @@ <<>>

UpperOf ==
  [c \in {LowerOf[u] : u \in DOMAIN LowerOf} |->
     CHOOSE u \in DOMAIN LowerOf : LowerOf[u] = c] @@ <<>>

AsciiOf ==
  [c \in {"a^","e^","i^","o^","u^","n~","a~","A^","E^","I^","O^","U^","N~","A~"} |->
     CASE c = "a^" -> "a" [] c = "e^" -> "e" [] c = "i^" -> "i" [] c = "o^" -> "o"
       [] c = "u^" -> "u" [] c = "n~" -> "n" [] c = "a~" -> "a" [] c = "A^" -> "A"
       [] c = "E^" -> "E" [] c = "I^" -> "I" [] c = "O^" -> "O" [] c = "U^" -> "U"
       [] c = "N~" -> "N" [] c = "A~" -> "A"] @@ <<>>

Whitespace == {" ", "\t"}
Digits == {"0","1","2","3","4","5","6","7","8","9"}

IsLetter(c) == c \in DOMAIN LowerOf \/ c \in DOMAIN UpperOf

\* str.lower()
Lower(s) == [i \in 1..Len(s) |-> IF s[i] \in DOMAIN LowerOf THEN LowerOf[s[i]] ELSE s[i]]

\* unidecode(): every accented letter becomes its base letter
Unidecode(s) == [i \in 1..Len(s) |-> IF s[i] \in DOMAIN AsciiOf THEN AsciiOf[s[i]] ELSE s[i]]

RECURSIVE LStrip(_)
LStrip(s) == IF s # <<>> /\ Head(s) \in Whitespace THEN LStrip(Tail(s)) ELSE s

RECURSIVE RStrip(_)
RStrip(s) ==
  IF s # <<>> /\ s[Len(s)] \in Whitespace THEN RStrip(SubSeq(s, 1, Len(s) - 1)) ELSE s

\* str.strip()
Strip(s) == RStrip(LStrip(s))

\* str.title(): a letter that follows a letter is lower-cased, any other letter
\* is upper-cased
Title(s) ==
  [i \in 1..Len(s) |->
     IF i > 1 /\ IsLetter(s[i - 1])
       THEN (IF s[i] \in DOMAIN LowerOf THEN LowerOf[s[i]] ELSE s[i])
       ELSE (IF s[i] \in DOMAIN UpperOf THEN UpperOf[s[i]] ELSE s[i])]

\* pd.notna(x) and str(x).strip()
HasText(x) == x # NaN /\ Strip(x) # <<>>

Max(a, b) == IF a >= b THEN a ELSE b

----------------------------------------------------------------------------
(* The gazetteer.  A dict is the sequence of its <<key, value>> items in   *)
(* insertion order.                                                        *)

DEPARTMENTS ==
  << <<"A","s","u","n","c","i","o^","n">>,
     <<"C","e","n","t","r","a","l">>,
     <<"C","o","n","c","e","p","c","i","o^","n">>,
     <<"S","a","n"," ","P","e","d","r","o">>,
     <<"C","o","r","d","i","l","l","e","r","a">>,
     <<"G","u","a","i","r","a^">>,
     <<"C","a","a","g","u","a","z","u^">>,
     <<"C","a","a","z","a","p","a^">>,
     <<"I","t","a","p","u^","a">>,
     <<"M","i","s","i","o","n","e","s">>,
     <<"P","a","r","a","g","u","a","r","i^">>,
     <<"A","l","t","o"," ","P","a","r","a","n","a^">>,
     <<"N~","e","e","m","b","u","c","u^">>,
     <<"A","m","a","m","b","a","y">>,
     <<"C","a","n","i","n","d","e","y","u^">>,
     <<"P","r","e","s","i","d","e","n","t","e"," ","H","a","y","e","s">>,
     <<"A","l","t","o"," ","P","a","r","a","g","u","a","y">>,
     <<"B","o","q","u","e","r","o^","n">> >>

CITIES ==
  << <<"A","s","u","n","c","i","o^","n">>,
     <<"L","a","m","b","a","r","e^">>,
     <<"S","a","n"," ","L","o","r","e","n","z","o">>,
     <<"C","a","p","i","a","t","a^">>,
     <<"F","e","r","n","a","n","d","o"," ","d","e"," ","l","a"," ","M","o","r","a">>,
     <<"L","u","q","u","e">>,
     <<"V","i","l","l","a"," ","E","l","i","s","a">>,
     <<"N~","e","m","b","y">>,
     <<"I","t","a","u","g","u","a^">>,
     <<"L","i","m","p","i","o">>,
     <<"A","r","e","g","u","a^">>,
     <<"M","a","r","i","a","n","o"," ","R","o","q","u","e"," ","A","l","o","n","s","o">>,
     <<"L","o","m","a"," ","P","y","t","a~">>,
     <<"Y","p","a","n","e^">>,
     <<"C","a","a","c","u","p","e^">>,
     <<"V","i","l","l","a","r","r","i","c","a">>,
     <<"E","n","c","a","r","n","a","c","i","o^","n">>,
     <<"B","e","l","l","a"," ","V","i","s","t","a">>,
     <<"H","e","r","n","a","n","d","a","r","i","a","s">>,
     <<"P","r","e","s","i","d","e","n","t","e"," ","F","r","a","n","c","o">>,
     <<"C","i","u","d","a","d"," ","d","e","l"," ","E","s","t","e">>,
     <<"P","e","d","r","o"," ","J","u","a","n"," ","C","a","b","a","l","l","e","r","o">>,
     <<"C","o","r","o","n","e","l"," ","O","v","i","e","d","o">>,
     <<"C","a","a","g","u","a","z","u^">>,
     <<"S","a","n"," ","A","n","t","o","n","i","o">>,
     <<"C","a","r","m","e","n"," ","d","e","l"," ","P","a","r","a","n","a^">>,
     <<"C","o","l","o","n","i","a"," ","I","n","d","e","p","e","n","d","e","n","c","i","a">>,
     <<"S","a","n","t","a"," ","R","o","s","a"," ","d","e","l"," ","M","o","n","d","a","y">> >>

STATE_DICT ==
  << <<<<"a","s","u","n","c","i","o","n">>, <<"A","s","u","n","c","i","o^","n">>>>,
     <<<<"c","a","p","i","t","a","l">>, <<"A","s","u","n","c","i","o^","n">>>>,
     <<<<"c","e","n","t","r","a","l">>, <<"C","e","n","t","r","a","l">>>>,
     <<<<"i","t","a","p","u","a">>, <<"I","t","a","p","u^","a">>>>,
     <<<<"a","l","t","o"," ","p","a","r","a","n","a">>, <<"A","l","t","o"," ","P","a","r","a","n","a^">>>>,
     <<<<"c","a","a","g","u","a","z","u">>, <<"C","a","a","g","u","a","z","u^">>>>,
     <<<<"g","u","a","i","r","a">>, <<"G","u","a","i","r","a^">>>>,
     <<<<"a","m","a","m","b","a","y">>, <<"A","m","a","m","b","a","y">>>>,
     <<<<"c","a","n","i","n","d","e","y","u">>, <<"C","a","n","i","n","d","e","y","u^">>>>,
     <<<<"p","a","r","a","g","u","a","r","i">>, <<"P","a","r","a","g","u","a","r","i^">>>>,
     <<<<"p","r","e","s","i","d","e","n","t","e"," ","h","a","y","e","s">>, <<"P","r","e","s","i","d","e","n","t","e"," ","H","a","y","e","s">>>>,
     <<<<"a","l","t","o"," ","p","a","r","a","g","u","a","y">>, <<"A","l","t","o"," ","P","a","r","a","g","u","a","y">>>>,
     <<<<"b","o","q","u","e","r","o","n">>, <<"B","o","q","u","e","r","o^","n">>>>,
     <<<<"p","a","r","a","g","u","a","y">>, <<"A","s","u","n","c","i","o^","n">>>>,
     <<<<"a","s","s","u","m","p","t","i","o","n">>, <<"A","s","u","n","c","i","o^","n">>>>,
     <<<<"m","i","s","i","o","n","e","s">>, <<"M","i","s","i","o","n","e","s">>>>,
     <<<<"c","o","n","c","e","p","c","i","o","n">>, <<"C","o","n","c","e","p","c","i","o^","n">>>>,
     <<<<"s","a","n"," ","p","e","d","r","o">>, <<"S","a","n"," ","P","e","d","r","o">>>>,
     <<<<"c","o","r","d","i","l","l","e","r","a">>, <<"C","o","r","d","i","l","l","e","r","a">>>>,
     <<<<"c","a","a","z","a","p","a">>, <<"C","a","a","z","a","p","a^">>>>,
     <<<<"n","e","e","m","b","u","c","u">>, <<"N~","e","e","m","b","u","c","u^">>>>,
     <<<<"d","e","p","a","r","t","a","m","e","n","t","o">>, <<"C","e","n","t","r","a","l">>>> >>

CITY_DICT ==
  << <<<<"l","a","m","b","a","r","e">>, <<"L","a","m","b","a","r","e^">>>>,
     <<<<"e","n","c","a","r","n","a","c","i","o","n">>, <<"E","n","c","a","r","n","a","c","i","o^","n">>>>,
     <<<<"c","a","p","i","a","t","a">>, <<"C","a","p","i","a","t","a^">>>>,
     <<<<"s","a","n"," ","l","o","r","e","n","z","o">>, <<"S","a","n"," ","L","o","r","e","n","z","o">>>>,
     <<<<"v","i","l","l","a"," ","e","l","i","s","a">>, <<"V","i","l","l","a"," ","E","l","i","s","a">>>>,
     <<<<"n","e","m","b","y">>, <<"N~","e","m","b","y">>>>,
     <<<<"y","p","a","n","e">>, <<"Y","p","a","n","e^">>>>,
     <<<<"c","i","u","d","a","d"," ","d","e","l"," ","e","s","t","e">>, <<"C","i","u","d","a","d"," ","d","e","l"," ","E","s","t","e">>>>,
     <<<<"h","e","r","n","a","n","d","a","r","i","a","s">>, <<"H","e","r","n","a","n","d","a","r","i","a","s">>>>,
     <<<<"p","r","e","s","i","d","e","n","t","e"," ","f","r","a","n","c","o">>, <<"P","r","e","s","i","d","e","n","t","e"," ","F","r","a","n","c","o">>>>,
     <<<<"g","u","a","i","r","a">>, <<"V","i","l","l","a","r","r","i","c","a">>>>,
     <<<<"i","n","d","e","p","e","n","d","e","n","c","i","a">>, <<"C","o","l","o","n","i","a"," ","I","n","d","e","p","e","n","d","e","n","c","i","a">>>>,
     <<<<"s","a","n","t","a"," ","r","o","s","a"," ","d","e","l"," ","m","o","n","d","a","y">>, <<"S","a","n","t","a"," ","R","o","s","a"," ","d","e","l"," ","M","o","n","d","a","y">>>>,
     <<<<"c","o","r","o","n","e","l"," ","o","v","i","e","d","o">>, <<"C","o","r","o","n","e","l"," ","O","v","i","e","d","o">>>>,
     <<<<"f","e","r","n","a","n","d","o"," ","d","e"," ","l","a"," ","m","o","r","a">>, <<"F","e","r","n","a","n","d","o"," ","d","e"," ","l","a"," ","M","o","r","a">>>>,
     <<<<"l","u","q","u","e">>, <<"L","u","q","u","e">>>>,
     <<<<"i","t","a","u","g","u","a">>, <<"I","t","a","u","g","u","a^">>>>,
     <<<<"l","i","m","p","i","o">>, <<"L","i","m","p","i","o">>>>,
     <<<<"a","r","e","g","u","a">>, <<"A","r","e","g","u","a^">>>>,
     <<<<"m","a","r","i","a","n","o"," ","r","o","q","u","e"," ","a","l","o","n","s","o">>, <<"M","a","r","i","a","n","o"," ","R","o","q","u","e"," ","A","l","o","n","s","o">>>>,
     <<<<"c","a","a","c","u","p","e">>, <<"C","a","a","c","u","p","e^">>>>,
     <<<<"v","i","l","l","a","r","r","i","c","a">>, <<"V","i","l","l","a","r","r","i","c","a">>>>,
     <<<<"b","e","l","l","a"," ","v","i","s","t","a">>, <<"B","e","l","l","a"," ","V","i","s","t","a">>>>,
     <<<<"p","e","d","r","o"," ","j","u","a","n"," ","c","a","b","a","l","l","e","r","o">>, <<"P","e","d","r","o"," ","J","u","a","n"," ","C","a","b","a","l","l","e","r","o">>>>,
     <<<<"s","a","n"," ","a","n","t","o","n","i","o">>, <<"S","a","n"," ","A","n","t","o","n","i","o">>>>,
     <<<<"c","a","r","m","e","n"," ","d","e","l"," ","p","a","r","a","n","a">>, <<"C","a","r","m","e","n"," ","d","e","l"," ","P","a","r","a","n","a^">>>>,
     <<<<"a","s","u","n","c","i","o","n">>, <<"A","s","u","n","c","i","o^","n">>>>,
     <<<<"a","s","s","u","m","p","t","i","o","n">>, <<"A","s","u","n","c","i","o^","n">>>>,
     <<<<"c","i","u","d","a","d"," ","n","u","e","v","a">>, <<"C","i","u","d","a","d"," ","N","u","e","v","a">>>>,
     <<<<"m","b","u","r","i","c","a","o">>, <<"M","b","u","r","i","c","a","o^">>>>,
     <<<<"l","o","s"," ","c","e","d","r","a","l","e","s">>, <<"L","o","s"," ","C","e","d","r","a","l","e","s">>>>,
     <<<<"o","b","l","i","g","a","d","o">>, <<"O","b","l","i","g","a","d","o">>>>,
     <<<<"f","i","l","a","d","e","l","f","i","a">>, <<"F","i","l","a","d","e","l","f","i","a">>>>,
     <<<<"l","o","m","a"," ","p","l","a","t","a">>, <<"L","o","m","a"," ","P","l","a","t","a">>>> >>

CITY_TO_DEPARTMENT ==
  << <<<<"L","a","m","b","a","r","e^">>, <<"C","e","n","t","r","a","l">>>>,
     <<<<"S","a","n"," ","L","o","r","e","n","z","o">>, <<"C","e","n","t","r","a","l">>>>,
     <<<<"C","a","p","i","a","t","a^">>, <<"C","e","n","t","r","a","l">>>>,
     <<<<"F","e","r","n","a","n","d","o"," ","d","e"," ","l","a"," ","M","o","r","a">>, <<"C","e","n","t","r","a","l">>>>,
     <<<<"L","u","q","u","e">>, <<"C","e","n","t","r","a","l">>>>,
     <<<<"V","i","l","l","a"," ","E","l","i","s","a">>, <<"C","e","n","t","r","a","l">>>>,
     <<<<"N~","e","m","b","y">>, <<"C","e","n","t","r","a","l">>>>,
     <<<<"I","t","a","u","g","u","a^">>, <<"C","e","n","t","r","a","l">>>>,
     <<<<"L","i","m","p","i","o">>, <<"C","e","n","t","r","a","l">>>>,
     <<<<"A","r","e","g","u","a^">>, <<"C","e","n","t","r","a","l">>>>,
     <<<<"M","a","r","i","a","n","o"," ","R","o","q","u","e"," ","A","l","o","n","s","o">>, <<"C","e","n","t","r","a","l">>>>,
     <<<<"E","n","c","a","r","n","a","c","i","o^","n">>, <<"I","t","a","p","u^","a">>>>,
     <<<<"V","i","l","l","a","r","r","i","c","a">>, <<"G","u","a","i","r","a^">>>>,
     <<<<"C","i","u","d","a","d"," ","d","e","l"," ","E","s","t","e">>, <<"A","l","t","o"," ","P","a","r","a","n","a^">>>>,
     <<<<"H","e","r","n","a","n","d","a","r","i","a","s">>, <<"A","l","t","o"," ","P","a","r","a","n","a^">>>>,
     <<<<"P","r","e","s","i","d","e","n","t","e"," ","F","r","a","n","c","o">>, <<"A","l","t","o"," ","P","a","r","a","n","a^">>>>,
     <<<<"P","e","d","r","o"," ","J","u","a","n"," ","C","a","b","a","l","l","e","r","o">>, <<"A","m","a","m","b","a","y">>>> >>

RECURSIVE DictIndex(_, _, _)
DictIndex(d, k, i) ==
  IF i > Len(d) THEN 0 ELSE IF d[i][1] = k THEN i ELSE DictIndex(d, k, i + 1)

\* k in d
InDict(d, k) == DictIndex(d, k, 1) # 0

\* d[k]
DictGet(d, k) == d[DictIndex(d, k, 1)][2]

----------------------------------------------------------------------------
(* fuzzy_match.  rapidfuzz's fuzz.ratio(a, b) is the normalized Indel      *)
(* similarity 100 * (1 - (|a| + |b| - 2 LCS(a, b)) / (|a| + |b|)), and 100 *)
(* for two empty strings.  A score is kept as the exact fraction           *)
(* <<num, den>> and compared by cross-multiplication.                      *)

\* the next row of the LCS table: row[j] is the LCS length of the prefix of a read
\* so far and b[1..j]; x is the next character of a.  Either x stays unmatched
\* (prev[j]) or it is matched with the last occurrence of x in b[1..j].
LcsNextRow(x, b, prev) ==
  [j \in 1..Len(b) |->
     LET ks == {k \in 1..j : b[k] = x}
     IN  IF ks = {} THEN prev[j]
         ELSE LET k == CHOOSE q \in ks : \A r \in ks : r <= q
              IN  Max(prev[j], (IF k = 1 THEN 0 ELSE prev[k - 1]) + 1)] @@ <<>>

RECURSIVE LcsRows(_, _, _, _)
LcsRows(a, b, i, prev) ==
  IF i > Len(a) THEN prev ELSE LcsRows(a, b, i + 1, LcsNextRow(a[i], b, prev))

\* length of a longest common subsequence of a and b
LcsLen(a, b) ==
  IF a = <<>> \/ b = <<>> THEN 0
  ELSE LcsRows(a, b, 1, [j \in 1..Len(b) |-> 0])[Len(b)]

\* fuzz.ratio(a, b)
Ratio(a, b) ==
  IF Len(a) + Len(b) = 0 THEN <<100, 1>> ELSE <<200 * LcsLen(a, b), Len(a) + Len(b)>>

ScoreGeqInt(s, n) == s[1] >= n * s[2]
ScoreGt(s, t) == s[1] * t[2] > t[1] * s[2]

DefaultThreshold == 88
ZeroScore == <<0, 1>>

\* a slip of line 217: ">=" in place of ">", so that the last best candidate wins
FuzzyAcceptLast(score, threshold, acc) ==
  ScoreGeqInt(score, threshold) /\ ~ScoreGt(acc[2], score)

\* line 217: the test of one iteration; acc is <<best_match, best_score>>
FuzzyAccept(score, threshold, acc) == ScoreGeqInt(score, threshold) /\ ScoreGt(score, acc[2])

FuzzyStep(text_clean, candidate, threshold, acc) ==
  LET score == Ratio(text_clean, Unidecode(Lower(candidate)))
  IN  IF FuzzyAccept(score, threshold, acc) THEN <<candidate, score>> ELSE acc

RECURSIVE FuzzyLoop(_, _, _, _, _)
FuzzyLoop(text_clean, candidates, threshold, i, acc) ==
  IF i > Len(candidates) THEN acc
  ELSE FuzzyLoop(text_clean, candidates, threshold, i + 1,
                 FuzzyStep(text_clean, candidates[i], threshold, acc))

fuzzy_match(text, candidates, threshold) ==
  IF text = <<>> THEN None
  ELSE FuzzyLoop(Unidecode(Strip(Lower(text))), candidates, threshold, 1,
                 <<None, ZeroScore>>)[1]

----------------------------------------------------------------------------
(* normalize_city_state                                                    *)

\* a slip of lines 233-235: CITY_DICT is not looked at
NormalizeCityNoDict(c_raw) ==
  IF ~HasText(c_raw) THEN <<>>
  ELSE LET fuzzy_city == fuzzy_match(c_raw, CITIES, DefaultThreshold)
       IN  IF fuzzy_city # None THEN fuzzy_city ELSE Title(Strip(c_raw))

\* lines 231-241: the city from city_raw
NormalizeCity(c_raw) ==
  IF ~HasText(c_raw) THEN <<>>
  ELSE LET city_clean == Unidecode(Strip(Lower(c_raw)))
       IN  IF InDict(CITY_DICT, city_clean) THEN DictGet(CITY_DICT, city_clean)
           ELSE LET fuzzy_city == fuzzy_match(c_raw, CITIES, DefaultThreshold)
                IN  IF fuzzy_city # None THEN fuzzy_city ELSE Title(Strip(c_raw))

\* a slip of lines 253-260: a city that state_raw names is never adopted
NormalizeStateNoAdopt(c, s_raw) ==
  IF ~HasText(s_raw) THEN <<c, <<>>>>
  ELSE LET state_clean == Unidecode(Strip(Lower(s_raw)))
       IN  IF InDict(STATE_DICT, state_clean) THEN <<c, DictGet(STATE_DICT, state_clean)>>
           ELSE LET fuzzy_state == fuzzy_match(s_raw, DEPARTMENTS, DefaultThreshold)
                IN  IF fuzzy_state # None THEN <<c, fuzzy_state>>
                    ELSE <<c, Title(Strip(s_raw))>>

\* lines 243-263: <<city, state>> after the state block, given the city so far
NormalizeState(c, s_raw) ==
  IF ~HasText(s_raw) THEN <<c, <<>>>>
  ELSE LET state_clean == Unidecode(Strip(Lower(s_raw)))
       IN  IF InDict(STATE_DICT, state_clean) THEN <<c, DictGet(STATE_DICT, state_clean)>>
           ELSE LET fuzzy_state == fuzzy_match(s_raw, DEPARTMENTS, DefaultThreshold)
                IN  IF fuzzy_state # None THEN <<c, fuzzy_state>>
                    ELSE LET fuzzy_city_from_state ==
                               fuzzy_match(s_raw, CITIES, DefaultThreshold)
                         IN  IF fuzzy_city_from_state # None /\ c = <<>>
                               THEN <<fuzzy_city_from_state,
                                      IF InDict(CITY_TO_DEPARTMENT, fuzzy_city_from_state)
                                        THEN DictGet(CITY_TO_DEPARTMENT, fuzzy_city_from_state)
                                      ELSE IF fuzzy_city_from_state = <<"A","s","u","n","c","i","o^","n">>
                                        THEN <<"A","s","u","n","c","i","o^","n">>
                                      ELSE <<>>>>
                               ELSE <<c, Title(Strip(s_raw))>>

\* a slip of line 266: the mapped department only fills an empty state
AuthorityRuleFillOnly(c, s) ==
  IF InDict(CITY_TO_DEPARTMENT, c) /\ s = <<>> THEN DictGet(CITY_TO_DEPARTMENT, c) ELSE s

\* lines 265-267: the authority rule
AuthorityRule(c, s) ==
  IF InDict(CITY_TO_DEPARTMENT, c) THEN DictGet(CITY_TO_DEPARTMENT, c) ELSE s

normalize_city_state(c_raw, s_raw) ==
  LET cs == NormalizeState(NormalizeCity(c_raw), s_raw)
  IN  <<cs[1], AuthorityRule(cs[1], cs[2])>>

----------------------------------------------------------------------------
(* The phonenumbers library as normalize_phone calls it: parse(number,     *)
(* None) for a number with a leading "+", parse(number, "PY") otherwise,   *)
(* is_valid_number and format_number(E164).  The metadata is that of       *)
(* Paraguay (calling code 595, international prefix 00, national prefix    *)
(* 0).  Of the assigned calling codes only 595 begins an input of this     *)
(* model; 0... and 28x are no calling codes.                               *)

PLUS == "+"
CC_PY == <<"5","9","5">>
PLUS_CC_PY == <<"+","5","9","5">>

StartsWith(s, p) == Len(s) >= Len(p) /\ SubSeq(s, 1, Len(p)) = p
DropFirst(s, n) == SubSeq(s, n + 1, Len(s))

\* str.isdigit()
IsDigitStr(s) == s # <<>> /\ \A i \in 1..Len(s) : s[i] \in Digits

RECURSIVE LeadingPluses(_)
LeadingPluses(s) == IF s # <<>> /\ Head(s) = PLUS THEN 1 + LeadingPluses(Tail(s)) ELSE 0

RECURSIVE RStripPlus(_)
RStripPlus(s) ==
  IF s # <<>> /\ s[Len(s)] = PLUS THEN RStripPlus(SubSeq(s, 1, Len(s) - 1)) ELSE s

\* _is_viable_phone_number on a string of digits and "+": any "+" leads, and
\* three digits follow (or the string is two digits)
LibViable(n) ==
  LET k == LeadingPluses(n)
      rest == DropFirst(n, k)
  IN  /\ \A i \in 1..Len(rest) : rest[i] \in Digits
      /\ Len(rest) >= 3 \/ (Len(rest) = 2 /\ k = 0)

\* the general national number pattern of PY:
\* 59\d{4,6}|9\d{5,10}|(?:[2-46-8]\d|5[0-8])\d{4,7}
PyGeneral(n) ==
  /\ IsDigitStr(n)
  /\ \/ StartsWith(n, <<"5","9">>) /\ Len(n) \in 6..8
     \/ n[1] = "9" /\ Len(n) \in 6..11
     \/ /\ Len(n) \in 6..9
        /\ \/ n[1] \in {"2","3","4","6","7","8"}
           \/ n[1] = "5" /\ n[2] \in Digits \ {"9"}

\* mobile: 9(?:51|6[129]|7[1-6]|8[1-7]|9[1-5])\d{6}
PyMobile(n) ==
  /\ Len(n) = 9
  /\ n[1] = "9"
  /\ \/ n[2] = "5" /\ n[3] = "1"
     \/ n[2] = "6" /\ n[3] \in {"1","2","9"}
     \/ n[2] = "7" /\ n[3] \in {"1","2","3","4","5","6"}
     \/ n[2] = "8" /\ n[3] \in {"1","2","3","4","5","6","7"}
     \/ n[2] = "9" /\ n[3] \in {"1","2","3","4","5"}

\* fixed line, the two-digit area codes:
\* (?:[26]1|3[289]|4[1246-8]|7[1-3]|8[1-36])\d{5,7}
PyFixedLine(n) ==
  /\ Len(n) \in 7..9
  /\ \/ n[1] \in {"2","6"} /\ n[2] = "1"
     \/ n[1] = "3" /\ n[2] \in {"2","8","9"}
     \/ n[1] = "4" /\ n[2] \in {"1","2","4","6","7","8"}
     \/ n[1] = "7" /\ n[2] \in {"1","2","3"}
     \/ n[1] = "8" /\ n[2] \in {"1","2","3","6"}

\* universal access numbers: [2-9]0\d{4,7}
PyUan(n) == Len(n) \in 6..9 /\ n[1] \in Digits \ {"0","1"} /\ n[2] = "0"

\* _test_number_length against the possible lengths 6..9 (5 local only)
PyTestLength(n) ==
  IF Len(n) = 5 THEN "IS_POSSIBLE_LOCAL_ONLY"
  ELSE IF Len(n) < 6 THEN "TOO_SHORT"
  ELSE IF Len(n) > 9 THEN "TOO_LONG"
  ELSE "IS_POSSIBLE"

\* _maybe_strip_national_prefix_carrier_code with the national prefix 0
PyStripNationalPrefix(n) ==
  IF n # <<>> /\ Head(n) = "0" /\ ~(PyGeneral(n) /\ ~PyGeneral(Tail(n)))
    THEN Tail(n) ELSE n

ParseError == [ok |-> FALSE, nsn |-> <<>>]
Parsed(n) == [ok |-> TRUE, nsn |-> n]

\* the end of parse for a number of calling code 595: the national prefix is
\* stripped when the rest has a possible length; the length limits 2 and 17
PyParseNational(n) ==
  IF Len(n) < 2 THEN ParseError
  ELSE LET stripped == PyStripNationalPrefix(n)
           nsn == IF PyTestLength(stripped) = "IS_POSSIBLE" \/ PyTestLength(stripped) = "TOO_LONG"
                    THEN stripped ELSE n
       IN  IF Len(nsn) < 2 \/ Len(nsn) > 17 THEN ParseError ELSE Parsed(nsn)

\* _maybe_extract_country_code of a number written with "+" or with the
\* international prefix: the digits after it must begin with a calling code
PyParseInternational(digits) ==
  IF Len(digits) <= 2 THEN ParseError
  ELSE IF StartsWith(digits, CC_PY) THEN PyParseNational(DropFirst(digits, 3))
  ELSE ParseError

\* phonenumbers.parse(number, region): region is "None" or "PY"
LibParse(number, region) ==
  LET n == RStripPlus(number)
      k == LeadingPluses(n)
      digits == DropFirst(n, k)
  IN  IF ~LibViable(n) THEN ParseError
      ELSE IF k > 0 THEN PyParseInternational(digits)
      ELSE IF region = "None" THEN ParseError
      ELSE IF StartsWith(digits, <<"0","0">>) /\ Len(digits) > 2 /\ digits[3] # "0"
        THEN PyParseInternational(DropFirst(digits, 2))
      ELSE IF StartsWith(digits, CC_PY)
        THEN LET potential == PyStripNationalPrefix(DropFirst(digits, 3))
             IN  IF \/ ~PyGeneral(digits) /\ PyGeneral(potential)
                    \/ PyTestLength(digits) = "TOO_LONG"
                   THEN PyParseNational(potential)
                   ELSE PyParseNational(digits)
      ELSE PyParseNational(digits)

\* phonenumbers.is_valid_number
LibIsValid(parsed) ==
  /\ PyGeneral(parsed.nsn)
  /\ Len(parsed.nsn) \in 6..9
  /\ PyMobile(parsed.nsn) \/ PyFixedLine(parsed.nsn) \/ PyUan(parsed.nsn)

\* phonenumbers.format_number(parsed, PhoneNumberFormat.E164)
LibE164(parsed) == PLUS_CC_PY \o parsed.nsn

----------------------------------------------------------------------------
(* normalize_phone                                                         *)

PhoneSeparators == {"/", ","} \cup Whitespace

\* a slip of line 280: "/" is missing from the separators
RECURSIVE PhoneSplitNoSlash(_, _, _, _)
PhoneSplitNoSlash(s, i, cur, acc) ==
  IF i > Len(s) THEN (IF cur = <<>> THEN acc ELSE Append(acc, cur))
  ELSE IF s[i] \in PhoneSeparators \ {"/"}
    THEN PhoneSplitNoSlash(s, i + 1, <<>>, IF cur = <<>> THEN acc ELSE Append(acc, cur))
  ELSE PhoneSplitNoSlash(s, i + 1, Append(cur, s[i]), acc)

\* lines 280 and 284: re.split(r'[/,\s]+', ...) without the empty pieces
RECURSIVE PhoneSplit(_, _, _, _)
PhoneSplit(s, i, cur, acc) ==
  IF i > Len(s) THEN (IF cur = <<>> THEN acc ELSE Append(acc, cur))
  ELSE IF s[i] \in PhoneSeparators
    THEN PhoneSplit(s, i + 1, <<>>, IF cur = <<>> THEN acc ELSE Append(acc, cur))
  ELSE PhoneSplit(s, i + 1, Append(cur, s[i]), acc)

\* line 288: re.sub(r'[^\d+]', '', candidate.strip())
CleanPhone(c) == SelectSeq(c, LAMBDA ch : ch \in Digits \/ ch = PLUS)

\* re.match(r'^0+$', s)
AllZeros(s) == s # <<>> /\ \A i \in 1..Len(s) : s[i] = "0"

\* lines 290-295: the candidate is not skipped
Survives(clean_phone) ==
  /\ Len(clean_phone) >= 6
  /\ ~AllZeros(clean_phone)
  /\ Len(clean_phone) <= 15

\* lines 299-307: the string handed to phonenumbers.parse
ParseArgument(clean_phone) ==
  IF StartsWith(clean_phone, <<PLUS>>) THEN clean_phone
  ELSE IF Len(clean_phone) = 10 /\ ~StartsWith(clean_phone, <<"9">>)
    THEN PLUS_CC_PY \o clean_phone
  ELSE clean_phone

ParseRegion(clean_phone) ==
  IF StartsWith(clean_phone, <<PLUS>>) THEN "None"
  ELSE IF Len(clean_phone) = 10 /\ ~StartsWith(clean_phone, <<"9">>) THEN "None"
  ELSE "PY"

\* lines 297-323: what the try block appends to valid_phones for a candidate
\* that was not skipped
StrictStep(clean_phone) ==
  LET arg == ParseArgument(clean_phone)
      parsed == LibParse(arg, ParseRegion(clean_phone))
  IN  IF parsed.ok
        THEN (IF LibIsValid(parsed) THEN <<LibE164(parsed)>> ELSE <<>>)
      ELSE IF Len(arg) = 10 /\ IsDigitStr(arg) THEN <<PLUS_CC_PY \o arg>>
      ELSE IF Len(arg) = 9 /\ IsDigitStr(arg) THEN <<PLUS_CC_PY \o arg>>
      ELSE <<>>

\* lines 283-323: one iteration of the first loop
StrictIter(candidate, valid) ==
  LET clean_phone == CleanPhone(Strip(candidate))
  IN  IF Survives(clean_phone) THEN valid \o StrictStep(clean_phone) ELSE valid

RECURSIVE StrictLoop(_, _, _)
StrictLoop(candidates, i, valid) ==
  IF i > Len(candidates) THEN valid
  ELSE StrictLoop(candidates, i + 1, StrictIter(candidates[i], valid))

\* lines 339-343: the test of the second loop
FallbackTakes(clean_phone) == Len(clean_phone) = 10 /\ IsDigitStr(clean_phone)

\* lines 326-343: the second loop, which stops at the first number it takes
RECURSIVE FallbackLoop(_, _)
FallbackLoop(candidates, i) ==
  IF i > Len(candidates) THEN <<>>
  ELSE LET clean_phone == CleanPhone(Strip(candidates[i]))
       IN  IF Survives(clean_phone) /\ FallbackTakes(clean_phone)
             THEN <<PLUS_CC_PY \o clean_phone>>
             ELSE FallbackLoop(candidates, i + 1)

\* '+5959' in p
Contains(s, p) ==
  \E i \in 0..(Len(s) - Len(p)) : SubSeq(s, i + 1, i + Len(p)) = p

MOBILE_MARK == <<"+","5","9","5","9">>

\* a slip of lines 349-351: no preference for mobile numbers
SelectFirst(valid) == IF valid = <<>> THEN <<>> ELSE valid[1]

\* lines 345-354
SelectPhone(valid) ==
  IF valid = <<>> THEN <<>>
  ELSE LET mobile_phones == SelectSeq(valid, LAMBDA p : Contains(p, MOBILE_MARK))
       IN  IF mobile_phones # <<>> THEN mobile_phones[1] ELSE valid[1]

normalize_phone(raw) ==
  IF ~HasText(raw) THEN <<>>
  ELSE LET candidates == PhoneSplit(raw, 1, <<>>, <<>>)
           strict == StrictLoop(candidates, 1, <<>>)
           valid == IF strict = <<>> THEN FallbackLoop(candidates, 1) ELSE strict
       IN  SelectPhone(valid)

----------------------------------------------------------------------------
(* Regular expressions of the cleaner, as scans of a character sequence.   *)
(* A pattern is <<kind>> or <<kind, literal>>; Match(p, s, i) gives the    *)
(* position after the match of p that starts at i, or 0 when p does not    *)
(* match at i.  No pattern of the cleaner matches the empty string.        *)

AsciiLetters ==
  {"a","b","c","d","e","f","g","h","i","j","k","l","m","n","o","p","q","r","s","t",
   "u","v","w","x","y","z","A","B","C","D","E","F","G","H","I","J","K","L","M","N",
   "O","P","Q","R","S","T","U","V","W","X","Y","Z"}

\* \w
WordChars == DOMAIN LowerOf \cup DOMAIN UpperOf \cup Digits \cup {"_"}

\* [a-zA-Z0-9._%+-] and [a-zA-Z0-9.-]
EmailLocalChars == AsciiLetters \cup Digits \cup {".", "_", "%", "+", "-"}
EmailDomainChars == AsciiLetters \cup Digits \cup {".", "-"}

\* the character at position i, "" outside the string
At(s, i) == IF i \in 1..Len(s) THEN s[i] ELSE ""

LowerChar(c) == IF c \in DOMAIN LowerOf THEN LowerOf[c] ELSE c

\* \b before position i
Boundary(s, i) == (At(s, i - 1) \in WordChars) # (At(s, i) \in WordChars)

\* the literal lit (lower case) at position i, ignoring case
LitAt(s, i, lit) ==
  /\ i + Len(lit) - 1 <= Len(s)
  /\ \A k \in 1..Len(lit) : LowerChar(s[i + k - 1]) = lit[k]

\* the position after the longest run of characters of the class from position i
RunEnd(s, i, class) ==
  LET stops == {k \in i..Len(s) : s[k] \notin class}
  IN  IF i > Len(s) THEN i
      ELSE IF stops = {} THEN Len(s) + 1
      ELSE CHOOSE k \in stops : \A q \in stops : k <= q

\* \bword\b
WordMatch(s, i, lit) ==
  IF Boundary(s, i) /\ LitAt(s, i, lit) /\ Boundary(s, i + Len(lit)) THEN i + Len(lit) ELSE 0

\* \bAbbr\.\s* and \bc/\s*
AbbrevMatch(s, i, lit) ==
  IF Boundary(s, i) /\ LitAt(s, i, lit) THEN RunEnd(s, i + Len(lit), Whitespace) ELSE 0

\* line 122: \b[a-zA-Z0-9._%+-]+@[a-zA-Z0-9.-]+\.[a-zA-Z]{2,}\b
\* the domain is greedy: the last dot of the domain run that a top-level name of
\* two letters or more follows, up to a word boundary
EmailMatch(s, i) ==
  IF ~(Boundary(s, i) /\ s[i] \in EmailLocalChars) THEN 0
  ELSE LET r == RunEnd(s, i, EmailLocalChars)
       IN  IF At(s, r) # "@" THEN 0
           ELSE LET a == r + 1
                    b == RunEnd(s, a, EmailDomainChars)
                    dots == {p \in (a + 1)..(b - 1) :
                               /\ s[p] = "."
                               /\ RunEnd(s, p + 1, AsciiLetters) - (p + 1) >= 2
                               /\ At(s, RunEnd(s, p + 1, AsciiLetters)) \notin WordChars}
                IN  IF dots = {} THEN 0
                    ELSE RunEnd(s, (CHOOSE p \in dots : \A q \in dots : q <= p) + 1,
                                AsciiLetters)

\* line 126: \bCP-\w+\b
CpMatch(s, i) ==
  IF Boundary(s, i) /\ LitAt(s, i, <<"c","p","-">>) /\ At(s, i + 3) \in WordChars
    THEN RunEnd(s, i + 3, WordChars) ELSE 0

\* line 129: \bnumero de telefono\b.*
TelefonoMatch(s, i) ==
  IF WordMatch(s, i, <<"n","u","m","e","r","o"," ","d","e"," ",
                       "t","e","l","e","f","o","n","o">>) > 0
    THEN Len(s) + 1 ELSE 0

\* line 130: \b\d{10,}\b
LongDigitsMatch(s, i) ==
  LET e == RunEnd(s, i, Digits)
  IN  IF Boundary(s, i) /\ s[i] \in Digits /\ e - i >= 10 /\ Boundary(s, e) THEN e ELSE 0

\* line 137: \s*,\s*,+\s*
MultiCommaMatch(s, i) ==
  LET w1 == RunEnd(s, i, Whitespace)
      w2 == RunEnd(s, w1 + 1, Whitespace)
  IN  IF At(s, w1) = "," /\ At(s, w2) = ","
        THEN RunEnd(s, RunEnd(s, w2, {","}), Whitespace) ELSE 0

\* lines 138 and 198: ^\s*,\s*
LeadCommaMatch(s, i) ==
  LET w == RunEnd(s, 1, Whitespace)
  IN  IF i = 1 /\ At(s, w) = "," THEN RunEnd(s, w + 1, Whitespace) ELSE 0

\* line 139: \s*,\s*$
TrailCommaMatch(s, i) ==
  LET w == RunEnd(s, i, Whitespace)
  IN  IF At(s, w) = "," /\ RunEnd(s, w + 1, Whitespace) = Len(s) + 1
        THEN Len(s) + 1 ELSE 0

\* lines 140 and 195: \s+
SpacesMatch(s, i) == IF s[i] \in Whitespace THEN RunEnd(s, i, Whitespace) ELSE 0

\* line 166: \s+y\s+
YMatch(s, i) ==
  LET w == RunEnd(s, i, Whitespace)
  IN  IF s[i] \in Whitespace /\ LowerChar(At(s, w)) = "y" /\ At(s, w + 1) \in Whitespace
        THEN RunEnd(s, w + 1, Whitespace) ELSE 0

\* line 169: \bKm\.?\s*(\d+(?:\.\d+)?); KmNumber is the start of group 1
KmNumber(s, i) ==
  RunEnd(s, IF At(s, i + 2) = "." THEN i + 3 ELSE i + 2, Whitespace)

KmMatch(s, i) ==
  IF ~(Boundary(s, i) /\ LitAt(s, i, <<"k","m">>) /\ At(s, KmNumber(s, i)) \in Digits) THEN 0
  ELSE LET d == RunEnd(s, KmNumber(s, i), Digits)
       IN  IF At(s, d) = "." /\ At(s, d + 1) \in Digits THEN RunEnd(s, d + 1, Digits) ELSE d

\* line 196: ,\s*,+
CommasMatch(s, i) ==
  LET w == RunEnd(s, i + 1, Whitespace)
  IN  IF s[i] = "," /\ At(s, w) = "," THEN RunEnd(s, w, {","}) ELSE 0

\* line 197: ,\s*$
EndCommaMatch(s, i) ==
  IF s[i] = "," /\ RunEnd(s, i + 1, Whitespace) = Len(s) + 1 THEN Len(s) + 1 ELSE 0

\* line 201: the descriptors, in the order of the alternation
DESCRIPTORS ==
  << <<"c","a","s","a">>,
     <<"i","n","f","o","r","m","a","t","i","c","a">>,
     <<"p","a","r","t","i","c","u","l","a","r">>,
     <<"c","a","s","a"," ","p","a","r","t","i","c","u","l","a","r">> >>

\* line 201: ,?\s*(casa|informatica|particular|casa particular)\s*$
DescriptorMatch(s, i) ==
  LET w == RunEnd(s, IF s[i] = "," THEN i + 1 ELSE i, Whitespace)
  IN  IF \E k \in 1..Len(DESCRIPTORS) :
           /\ LitAt(s, w, DESCRIPTORS[k])
           /\ RunEnd(s, w + Len(DESCRIPTORS[k]), Whitespace) = Len(s) + 1
        THEN Len(s) + 1 ELSE 0

Match(p, s, i) ==
  CASE p[1] = "word" -> WordMatch(s, i, p[2])
    [] p[1] = "abbrev" -> AbbrevMatch(s, i, p[2])
    [] p[1] = "email" -> EmailMatch(s, i)
    [] p[1] = "cp" -> CpMatch(s, i)
    [] p[1] = "telefono" -> TelefonoMatch(s, i)
    [] p[1] = "long digits" -> LongDigitsMatch(s, i)
    [] p[1] = "multi comma" -> MultiCommaMatch(s, i)
    [] p[1] = "lead comma" -> LeadCommaMatch(s, i)
    [] p[1] = "trail comma" -> TrailCommaMatch(s, i)
    [] p[1] = "spaces" -> SpacesMatch(s, i)
    [] p[1] = "y" -> YMatch(s, i)
    [] p[1] = "km" -> KmMatch(s, i)
    [] p[1] = "commas" -> CommasMatch(s, i)
    [] p[1] = "end comma" -> EndCommaMatch(s, i)
    [] p[1] = "descriptor" -> DescriptorMatch(s, i)

\* the text of group 1 of the match of p at i..e-1; only the Km pattern has a group
Group1(p, s, i, e) == IF p[1] = "km" THEN SubSeq(s, KmNumber(s, i), e - 1) ELSE <<>>

\* the positions where re.sub looks for a match: position 1 and, after each of
\* them, the end of its match or the next character.  J is next composed with
\* itself 2^k times in round k, so that the set is closed in log2 rounds.
RECURSIVE ScanFrom(_, _)
ScanFrom(pts, J) ==
  LET more == pts \cup {J[x] : x \in pts}
  IN  IF more = pts THEN pts ELSE ScanFrom(more, [x \in DOMAIN J |-> J[J[x]]] @@ <<>>)

\* the pieces lo..hi of P joined
RECURSIVE Concat(_, _, _)
Concat(P, lo, hi) ==
  IF lo > hi THEN <<>>
  ELSE IF lo = hi THEN P[lo]
  ELSE Concat(P, lo, (lo + hi) \div 2) \o Concat(P, (lo + hi) \div 2 + 1, hi)

\* the replacement string r with the token "\\1" replaced by the text of group 1
Expand(r, group1) ==
  Concat([k \in 1..Len(r) |-> IF r[k] = "\\1" THEN group1 ELSE <<r[k]>>], 1, Len(r))

\* the end of the match of p at every position of s
MatchTable(s, p) == [i \in 1..Len(s) |-> Match(p, s, i)] @@ <<>>

\* where the scan goes on from position i
NextTable(m) ==
  [i \in 1..(Len(m) + 1) |->
     IF i > Len(m) THEN i ELSE IF m[i] > i THEN m[i] ELSE i + 1] @@ <<>>

\* the scanned positions of a string of length n, in order
ScanStarts(n, pts) == SelectSeq([i \in 1..n |-> i], LAMBDA i : i \in pts)

\* the replacement at every scanned position that starts a match, the character
\* itself at the others
SubPieces(s, p, r, m, starts) ==
  Concat([k \in 1..Len(starts) |->
            IF m[starts[k]] > starts[k]
              THEN Expand(r, Group1(p, s, starts[k], m[starts[k]]))
              ELSE <<s[starts[k]]>>],
         1, Len(starts))

SubWith(s, p, r, m) ==
  SubPieces(s, p, r, m, ScanStarts(Len(s), ScanFrom({1}, NextTable(m))))

\* re.sub(p, r, s): the matches are replaced from left to right
Sub(s, p, r) == IF s = <<>> THEN <<>> ELSE SubWith(s, p, r, MatchTable(s, p))

----------------------------------------------------------------------------
(* normalize_address                                                       *)

\* line 118: ^(XXX+|0{3,}|N/A|na|undefined|\$address\.address\d+)$
IsPlaceholder(p) ==
  \/ Len(p) >= 3 /\ \A i \in 1..Len(p) : LowerChar(p[i]) = "x"
  \/ Len(p) >= 3 /\ \A i \in 1..Len(p) : p[i] = "0"
  \/ Lower(p) = <<"n","/","a">>
  \/ Lower(p) = <<"n","a">>
  \/ Lower(p) = <<"u","n","d","e","f","i","n","e","d">>
  \/ /\ LitAt(p, 1, <<"$","a","d","d","r","e","s","s",".","a","d","d","r","e","s","s">>)
     /\ Len(p) > 16
     /\ \A i \in 17..Len(p) : p[i] \in Digits

\* line 127: Correo Paraguayo; line 128: link de maps
NOISE_WORDS ==
  << <<"c","o","r","r","e","o"," ","p","a","r","a","g","u","a","y","o">>,
     <<"l","i","n","k"," ","d","e"," ","m","a","p","s">> >>

\* lines 122-140: the re.sub calls on one fragment, <<pattern, replacement>>
CLEAN_RULES ==
  << << <<"email">>, <<>> >>,
     << <<"cp">>, <<>> >>,
     << <<"word", NOISE_WORDS[1]>>, <<>> >>,
     << <<"word", NOISE_WORDS[2]>>, <<>> >>,
     << <<"telefono">>, <<>> >>,
     << <<"long digits">>, <<>> >>,
     << <<"multi comma">>, <<",", " ">> >>,
     << <<"lead comma">>, <<>> >>,
     << <<"trail comma">>, <<>> >>,
     << <<"spaces">>, <<" ">> >> >>

\* the re.sub calls of rules applied to s one after the other
ApplyRules(s, rules) ==
  LET f[k \in 0..Len(rules)] ==
        IF k = 0 THEN s ELSE Sub(f[k - 1], rules[k][1], rules[k][2])
  IN  f[Len(rules)]

\* lines 115-142: one fragment cleaned; <<>> when nothing of it is left
CleanPart(part) ==
  IF ~HasText(part) \/ IsPlaceholder(Strip(part)) THEN <<>>
  ELSE Strip(ApplyRules(Strip(part), CLEAN_RULES))

\* a slip of lines 143-144: a fragment cleaned to nothing is kept
RECURSIVE CleanedPartsKeepEmpty(_, _)
CleanedPartsKeepEmpty(address_parts, i) ==
  IF i > Len(address_parts) THEN <<>>
  ELSE <<CleanPart(address_parts[i])>> \o CleanedPartsKeepEmpty(address_parts, i + 1)

\* lines 110-144: the cleaned fragments that are not empty, in input order
RECURSIVE CleanedParts(_, _)
CleanedParts(address_parts, i) ==
  IF i > Len(address_parts) THEN <<>>
  ELSE LET p == CleanPart(address_parts[i])
       IN  (IF p = <<>> THEN <<>> ELSE <<p>>) \o CleanedParts(address_parts, i + 1)

\* line 150: ", ".join(cleaned_parts)
RECURSIVE JoinParts(_)
JoinParts(parts) ==
  IF parts = <<>> THEN <<>>
  ELSE IF Len(parts) = 1 THEN parts[1]
  ELSE parts[1] \o <<",", " ">> \o JoinParts(Tail(parts))

\* lines 153-159: abbrev_map, the items in order; a key is \bAbbr\.\s*
ABBREV_MAP ==
  << << <<"a","v",".">>, <<"A","v","e","n","i","d","a"," ">> >>,
     << <<"a","v","d","a",".">>, <<"A","v","e","n","i","d","a"," ">> >>,
     << <<"g","r","a","l",".">>, <<"G","e","n","e","r","a","l"," ">> >>,
     << <<"p","t","e",".">>, <<"P","r","e","s","i","d","e","n","t","e"," ">> >>,
     << <<"t","t","e",".">>, <<"T","e","n","i","e","n","t","e"," ">> >> >>

\* lines 172-189: typo_fixes, the items in order
TYPO_FIXES ==
  << <<<<"y","a","t","c","h">>, <<"Y","a","c","h","t">>>>,
     <<<<"a","s","s","u","m","p","t","i","o","n">>, <<"A","s","u","n","c","i","o^","n">>>>,
     <<<<"m","e","c","a","n","i","c","a">>, <<"M","e","c","a^","n","i","c","a">>>>,
     <<<<"a","g","r","i","c","o","l","a">>, <<"A","g","r","i^","c","o","l","a">>>>,
     <<<<"h","e","r","n","i","a","n","d","a","r","i","a","s">>, <<"H","e","r","n","a","n","d","a","r","i","a","s">>>>,
     <<<<"m","b","u","r","i","c","a","o">>, <<"M","b","u","r","i","c","a","o^">>>>,
     <<<<"e","s","t","a","c","i","o","n","a","m","i","e","n","t","o">>, <<"E","s","t","a","c","i","o","n","a","m","i","e","n","t","o">>>>,
     <<<<"m","e","t","r","o","p","o","l","i","t","a","n","o">>, <<"M","e","t","r","o","p","o","l","i","t","a","n","o">>>>,
     <<<<"c","o","n","d","o","m","i","n","i","o">>, <<"C","o","n","d","o","m","i","n","i","o">>>>,
     <<<<"e","d","i","f","i","c","i","o">>, <<"E","d","i","f","i","c","i","o">>>>,
     <<<<"d","e","p","a","r","t","a","m","e","n","t","o">>, <<"D","e","p","a","r","t","a","m","e","n","t","o">>>>,
     <<<<"s","e","m","i","n","a","r","i","o">>, <<"S","e","m","i","n","a","r","i","o">>>>,
     <<<<"c","o","r","o","n","e","l">>, <<"C","o","r","o","n","e","l">>>>,
     <<<<"p","r","e","s","i","d","e","n","t","e">>, <<"P","r","e","s","i","d","e","n","t","e">>>>,
     <<<<"t","e","n","i","e","n","t","e">>, <<"T","e","n","i","e","n","t","e">>>>,
     <<<<"c","a","p","i","t","a","n">>, <<"C","a","p","i","t","a^","n">>>> >>

\* lines 161-201: the re.sub calls on the joined line, <<pattern, replacement>>;
\* the abbreviations and the typo fixes in the order of their dicts
NORMALIZE_RULES ==
  [k \in 1..Len(ABBREV_MAP) |-> << <<"abbrev", ABBREV_MAP[k][1]>>, ABBREV_MAP[k][2] >>]
  \o << << <<"abbrev", <<"c","/">>>>, <<" ", "y", " ">> >>,
        << <<"y">>, <<" ", "y", " ">> >>,
        << <<"km">>, <<"K", "m", " ", "\\1">> >> >>
  \o [k \in 1..Len(TYPO_FIXES) |-> << <<"word", TYPO_FIXES[k][1]>>, TYPO_FIXES[k][2] >>]
  \o << << <<"spaces">>, <<" ">> >>,
        << <<"commas">>, <<",">> >>,
        << <<"end comma">>, <<>> >>,
        << <<"lead comma">>, <<>> >>,
        << <<"descriptor">>, <<>> >> >>

\* lines 152-203: the joined line normalized
NormalizeCombined(combined) == Strip(ApplyRules(combined, NORMALIZE_RULES))

normalize_address(address_parts) ==
  LET cleaned_parts == CleanedParts(address_parts, 1)
  IN  IF cleaned_parts = <<>> THEN <<>> ELSE NormalizeCombined(JoinParts(cleaned_parts))

----------------------------------------------------------------------------
(* normalize_email.  validate_email of the email_validator package is      *)
(* modelled by its syntax rules for an unquoted ASCII address and by the   *)
(* answer of the mail-domain lookup.  The grave accent, which the syntax   *)
(* rules allow in the local part, is left out of EmailAtext.               *)

EmailAtext ==
  {"a","b","c","d","e","f","g","h","i","j","k","l","m","n","o","p","q","r","s","t",
   "u","v","w","x","y","z"} \cup Digits \cup
  {"!","#","$","%","&","'","*","+","-","=","?","^","_","{","|","}","~"}

EmailDomainAtoms ==
  {"a","b","c","d","e","f","g","h","i","j","k","l","m","n","o","p","q","r","s","t",
   "u","v","w","x","y","z"} \cup Digits \cup {"-"}

\* dot-separated atoms: no empty atom
DotAtoms(s, atoms) ==
  /\ s # <<>>
  /\ \A i \in 1..Len(s) : s[i] \in atoms \cup {"."}
  /\ s[1] # "." /\ s[Len(s)] # "."
  /\ \A i \in 1..(Len(s) - 1) : ~(s[i] = "." /\ s[i + 1] = ".")

\* the labels of a domain neither start nor end with a hyphen, there are two or
\* more of them and the last one is not a number
DomainLabels(d) ==
  /\ \E i \in 1..Len(d) : d[i] = "."
  /\ d[1] # "-" /\ d[Len(d)] # "-"
  /\ \A i \in 1..(Len(d) - 1) : ~(d[i] = "." /\ d[i + 1] = "-")
  /\ \A i \in 1..(Len(d) - 1) : ~(d[i] = "-" /\ d[i + 1] = ".")
  /\ LET dots == {i \in 1..Len(d) : d[i] = "."}
         last == CHOOSE i \in dots : \A j \in dots : j <= i
     IN  \E k \in (last + 1)..Len(d) : d[k] \notin Digits

\* the domains the lookup reports as receiving no mail
NoMailDomains == { <<"n","o","m","x",".","p","y">> }

\* line 371: validate_email(candidate) does not raise
EmailIsValid(candidate) ==
  LET ats == {i \in 1..Len(candidate) : candidate[i] = "@"}
      a == CHOOSE i \in ats : TRUE
      domain == SubSeq(candidate, a + 1, Len(candidate))
  IN  /\ Cardinality(ats) = 1
      /\ DotAtoms(SubSeq(candidate, 1, a - 1), EmailAtext)
      /\ DotAtoms(domain, EmailDomainAtoms)
      /\ DomainLabels(domain)
      /\ domain \notin NoMailDomains

\* lines 366-376: the first candidate that validates
RECURSIVE FirstValidEmail(_, _)
FirstValidEmail(email_candidates, i) ==
  IF i > Len(email_candidates) THEN <<>>
  ELSE IF EmailIsValid(Strip(email_candidates[i])) THEN Strip(email_candidates[i])
  ELSE FirstValidEmail(email_candidates, i + 1)

normalize_email(email_raw) ==
  IF ~HasText(email_raw) THEN <<>>
  ELSE FirstValidEmail(PhoneSplit(Strip(Lower(email_raw)), 1, <<>>, <<>>), 1)

----------------------------------------------------------------------------
(* extract_city_from_address                                               *)

\* lines 388-391: the first city of CITIES whose folded name is in the address
RECURSIVE FirstCityIn(_, _)
FirstCityIn(address_lower, i) ==
  IF i > Len(CITIES) THEN None
  ELSE IF Contains(address_lower, Unidecode(Lower(CITIES[i]))) THEN CITIES[i]
  ELSE FirstCityIn(address_lower, i + 1)

\* lines 394-396: the value of the first key of CITY_DICT that is in the address
RECURSIVE FirstKeyIn(_, _)
FirstKeyIn(address_lower, i) ==
  IF i > Len(CITY_DICT) THEN None
  ELSE IF Contains(address_lower, CITY_DICT[i][1]) THEN CITY_DICT[i][2]
  ELSE FirstKeyIn(address_lower, i + 1)

extract_city_from_address(address) ==
  IF address = <<>> THEN None
  ELSE LET address_lower == Unidecode(Lower(address))
           city_found == FirstCityIn(address_lower, 1)
       IN  IF city_found # None THEN city_found ELSE FirstKeyIn(address_lower, 1)

----------------------------------------------------------------------------
(* Frames.  A frame is a sequence of rows; a row is its index label and    *)
(* its cells, a function from column names to values.                      *)

ADDRESS_COLS ==
  <<"Buyer Address1", "Buyer Address1 Number", "Buyer Address2", "Buyer Address3">>

OUTPUT_COLS == <<"Address", "City", "State", "Phone", "Email">>

\* a cell of a numeric column; s is what str() gives for the number
Number(s) == <<"<number>">> \o s

IsNumber(x) == x # <<>> /\ x[1] = "<number>"

\* str(x) of a cell that is not missing
Str(x) == IF IsNumber(x) THEN Tail(x) ELSE x

\* the text of a field is an unsigned whole number
IsNumeral(x) == x # NaN /\ x # <<>> /\ \A i \in 1..Len(x) : x[i] \in Digits

\* the digits of a numeral without its leading zeros
DropZeros(x) ==
  LET nz == {i \in 1..Len(x) : x[i] # "0"}
  IN  IF nz = {} THEN <<"0">>
      ELSE SubSeq(x, CHOOSE i \in nz : \A j \in nz : i <= j, Len(x))

\* line 94: the dtype read_csv infers for a column from its fields (NaN is an
\* empty field): int64 when every field is a numeral, float64 when the others are
\* empty, object with the text of the fields otherwise
ReadColumn(fields) ==
  IF \A k \in 1..Len(fields) : fields[k] = NaN THEN fields
  ELSE IF \A k \in 1..Len(fields) : IsNumeral(fields[k])
    THEN [k \in 1..Len(fields) |-> Number(DropZeros(fields[k]))]
  ELSE IF \A k \in 1..Len(fields) : fields[k] = NaN \/ IsNumeral(fields[k])
    THEN [k \in 1..Len(fields) |->
            IF fields[k] = NaN THEN NaN ELSE Number(DropZeros(fields[k]) \o <<".", "0">>)]
  ELSE fields

\* line 94: pd.read_csv of a file with the columns cols and the lines raw
read_csv(cols, raw) ==
  [k \in 1..Len(raw) |->
     [index |-> k - 1,
      data |-> [c \in cols |-> ReadColumn([j \in 1..Len(raw) |-> raw[j][c]])[k]]]]

\* bool(x) of a cell: the empty string and the number 0 are false, NaN is true
Truthy(x) == x # <<>> /\ x # Number(<<"0">>) /\ x # Number(<<"0", ".", "0">>)

\* df[col] = values
SetColumn(frame, col, values) ==
  [k \in 1..Len(frame) |->
     [index |-> frame[k].index,
      data |-> [c \in DOMAIN frame[k].data \cup {col} |->
                  IF c = col THEN values[k] ELSE frame[k].data[c]]]]

\* the rows of the frame at the positions of keep, in order
TakeRows(frame, keep) ==
  LET Kept(k) == k \in keep
      ks == SelectSeq([k \in 1..Len(frame) |-> k], Kept)
  IN  [j \in 1..Len(ks) |-> frame[ks[j]]]

\* the cells of a row in the columns cols
Cells(row, cols) == [j \in 1..Len(cols) |-> row.data[cols[j]]]

----------------------------------------------------------------------------
(* The steps of main on one row.                                           *)

\* lines 479-487
AddressOfRow(cols, row) ==
  LET Present(c) == c \in cols
      existing_cols == SelectSeq(ADDRESS_COLS, Present)
      parts == Cells(row, existing_cols)
  IN  IF existing_cols # <<>>
        THEN normalize_address([j \in 1..Len(parts) |-> Str(parts[j])])
        ELSE <<>>

\* lines 491-503: <<City, State>>
CityStateOfRow(cols, row) ==
  IF "Buyer City" \in cols /\ "Buyer State" \in cols
    THEN normalize_city_state(Str(row.data["Buyer City"]), Str(row.data["Buyer State"]))
    ELSE << IF "Buyer City" \in cols THEN row.data["Buyer City"] ELSE <<>>,
            IF "Buyer State" \in cols THEN row.data["Buyer State"] ELSE <<>> >>

\* lines 507-514: <<City, State>> after the city is looked for in the address
ExtractOfRow(row) ==
  IF ~Truthy(row.data["City"]) /\ Truthy(row.data["Address"])
    THEN LET extracted_city == extract_city_from_address(row.data["Address"])
             normalized == normalize_city_state(extracted_city, Str(row.data["State"]))
         IN  IF extracted_city # None
               THEN << normalized[1],
                       IF ~Truthy(row.data["State"]) THEN normalized[2]
                       ELSE row.data["State"] >>
               ELSE <<row.data["City"], row.data["State"]>>
    ELSE <<row.data["City"], row.data["State"]>>

\* lines 518-522
PhoneOfRow(cols, row) ==
  IF "Buyer Phone" \in cols THEN normalize_phone(Str(row.data["Buyer Phone"])) ELSE <<>>

\* lines 526-530
EmailOfRow(cols, row) ==
  IF "Buyer Email" \in cols THEN normalize_email(Str(row.data["Buyer Email"])) ELSE <<>>

----------------------------------------------------------------------------
(* validate_and_dedupe                                                     *)

\* line 408: df.fillna
FillNa(frame) ==
  [k \in 1..Len(frame) |->
     [index |-> frame[k].index,
      data |-> [c \in DOMAIN frame[k].data |->
                  IF frame[k].data[c] = NaN THEN <<>> ELSE frame[k].data[c]]]]

\* lines 411-418: Series.str of a column of numbers raises AttributeError; after
\* fillna a column has a numeric dtype when every cell of it is a number
StrAccessorRaises(frame) ==
  /\ frame # <<>>
  /\ \E c \in {"Address", "City", "State", "Phone", "Email"} :
       \A k \in 1..Len(frame) : IsNumber(frame[k].data[c])

\* a slip of lines 415-418: phone AND email
valid_mask_both_contacts(row) ==
  /\ \/ Strip(row.data["Address"]) # <<>>
     \/ Strip(row.data["City"]) # <<>> /\ Strip(row.data["State"]) # <<>>
  /\ Strip(row.data["Phone"]) # <<>> /\ Strip(row.data["Email"]) # <<>>

\* lines 411-418
valid_mask(row) ==
  /\ \/ Strip(row.data["Address"]) # <<>>
     \/ Strip(row.data["City"]) # <<>> /\ Strip(row.data["State"]) # <<>>
  /\ \/ Strip(row.data["Phone"]) # <<>>
     \/ Strip(row.data["Email"]) # <<>>

\* line 420: df[valid_mask]
ValidRows(frame) == TakeRows(frame, {k \in 1..Len(frame) : valid_mask(frame[k])})

\* a slip of line 424: keep='last'
drop_duplicates_keep_last(frame, subset) ==
  TakeRows(frame, {k \in 1..Len(frame) :
                     \A j \in (k + 1)..Len(frame) :
                        Cells(frame[j], subset) # Cells(frame[k], subset)})

\* line 424: DataFrame.drop_duplicates(subset=...), keep='first'
drop_duplicates(frame, subset) ==
  TakeRows(frame, {k \in 1..Len(frame) :
                     \A j \in 1..(k - 1) :
                        Cells(frame[j], subset) # Cells(frame[k], subset)})

validate_and_dedupe(frame) == drop_duplicates(ValidRows(FillNa(frame)), OUTPUT_COLS)

\* lines 463-464: the output columns of the frame
save_df(frame) == [k \in 1..Len(frame) |-> Cells(frame[k], OUTPUT_COLS)]

----------------------------------------------------------------------------
(* The response parsing of the generative-language API:                     *)
(* GeocodingProcessor.call_gemini_api (geocoding_script.py),                *)
(* AddressProcessor.call_gemini_api (address_processor.py) and              *)
(* CSVMasterProcessor.process_address_with_gemini (csv_master_processor.py).*)
(* A response text is a sequence of tokens: the code fence, the word json,  *)
(* the JSON punctuation, the double quote, blanks, and words.  A JSON string*)
(* is a double quote, any tokens but a double quote, and a double quote     *)
(* (no escapes).                                                            *)

\* the token of three backticks
Fence == "<fence>"
Quote == "\""
JsonScalars == {"null", "1"}

GEOCODING_FIELDS ==
  <<"latitude", "longitude", "zip_code", "confidence_score", "explanation",
    "google_maps_link">>

PROCESSING_FIELDS ==
  <<"normalized_address", "state", "city", "street", "country",
    "confidence_score", "improvements_made", "address_quality">>

\* str.find(sub, start) for a one-token sub: the 1-based place, 0 for -1
FindFrom(s, tok, start) ==
  LET hits == { i \in start..Len(s) : s[i] = tok }
  IN IF hits = {} THEN 0 ELSE CHOOSE i \in hits : \A j \in hits : i <= j

\* str.rfind(sub) for a one-token sub: the 1-based place, 0 for -1
RFind(s, tok) ==
  LET hits == { i \in 1..Len(s) : s[i] = tok }
  IN IF hits = {} THEN 0 ELSE CHOOSE i \in hits : \A j \in hits : i >= j

\* the fenced block is taken out when the text starts with a fence and the
\* fence is closed; an unclosed fence leaves the text as it is
ExtractFence(response_text) ==
  IF StartsWith(response_text, <<Fence, "json">>)
    THEN LET end == FindFrom(response_text, Fence, 3)
         IN IF end # 0 THEN Strip(SubSeq(response_text, 3, end - 1)) ELSE response_text
    ELSE IF StartsWith(response_text, <<Fence>>)
      THEN LET end == FindFrom(response_text, Fence, 2)
           IN IF end # 0 THEN Strip(SubSeq(response_text, 2, end - 1)) ELSE response_text
      ELSE response_text

\* the text from its first opening brace to its last closing brace
TrimBraces(response_text) ==
  IF FindFrom(response_text, "{", 1) # 0 /\ RFind(response_text, "}") # 0
    THEN SubSeq(response_text, FindFrom(response_text, "{", 1), RFind(response_text, "}"))
    ELSE response_text

\* json.loads skips blanks between the tokens of the grammar
SkipWs(t, i) ==
  LET stops == { j \in i..Len(t) : t[j] \notin Whitespace }
  IN IF stops = {} THEN Len(t) + 1 ELSE CHOOSE j \in stops : \A k \in stops : j <= k

\* the closing quote of the string that opens at i, 0 if it is not closed
StringEnd(t, i) == FindFrom(t, Quote, i + 1)

StringContent(t, i) == SubSeq(t, i + 1, StringEnd(t, i) - 1)

RECURSIVE ValueEnd(_, _)
RECURSIVE ElementsEnd(_, _)
RECURSIVE MembersEnd(_, _)

\* after an element of an array: the closing bracket, or a comma and the
\* next element
AfterElement(t, j) ==
  IF j > Len(t) THEN 0
  ELSE IF t[j] = "]" THEN j
  ELSE IF t[j] = "," THEN ElementsEnd(t, SkipWs(t, j + 1))
  ELSE 0

\* after a member of an object: the closing brace, or a comma and the next
\* member
AfterMember(t, j) ==
  IF j > Len(t) THEN 0
  ELSE IF t[j] = "}" THEN j
  ELSE IF t[j] = "," THEN MembersEnd(t, SkipWs(t, j + 1))
  ELSE 0

\* after the key of a member: the colon and the value
AfterKey(t, c) ==
  IF c > Len(t) \/ t[c] # ":" THEN 0
  ELSE IF ValueEnd(t, SkipWs(t, c + 1)) = 0 THEN 0
  ELSE AfterMember(t, SkipWs(t, ValueEnd(t, SkipWs(t, c + 1)) + 1))

\* the place of the last token of the JSON value that starts at i, 0 if no
\* JSON value starts there
ValueEnd(t, i) ==
  IF i > Len(t) THEN 0
  ELSE IF t[i] \in JsonScalars THEN i
  ELSE IF t[i] = Quote THEN StringEnd(t, i)
  ELSE IF t[i] = "["
    THEN IF SkipWs(t, i + 1) <= Len(t) /\ t[SkipWs(t, i + 1)] = "]"
           THEN SkipWs(t, i + 1)
           ELSE ElementsEnd(t, SkipWs(t, i + 1))
  ELSE IF t[i] = "{"
    THEN IF SkipWs(t, i + 1) <= Len(t) /\ t[SkipWs(t, i + 1)] = "}"
           THEN SkipWs(t, i + 1)
           ELSE MembersEnd(t, SkipWs(t, i + 1))
  ELSE 0

\* the closing bracket of the array whose next element starts at i
ElementsEnd(t, i) ==
  IF ValueEnd(t, i) = 0 THEN 0
  ELSE AfterElement(t, SkipWs(t, ValueEnd(t, i) + 1))

\* the closing brace of the object whose next member starts at i
MembersEnd(t, i) ==
  IF i > Len(t) \/ t[i] # Quote \/ StringEnd(t, i) = 0 THEN 0
  ELSE AfterKey(t, SkipWs(t, StringEnd(t, i) + 1))

\* the place of the value of the member whose key opens at i
ValueStart(t, i) == SkipWs(t, SkipWs(t, StringEnd(t, i) + 1) + 1)

RECURSIVE MemberKeys(_, _)
\* the keys of the object whose next member starts at i (the text is valid)
MemberKeys(t, i) ==
  IF i > Len(t) \/ t[i] # Quote THEN {}
  ELSE {StringContent(t, i)} \cup
       MemberKeys(t, SkipWs(t, SkipWs(t, ValueEnd(t, ValueStart(t, i)) + 1) + 1))

RECURSIVE ElementItems(_, _)
\* the strings among the elements of the array whose next element starts at i
ElementItems(t, i) ==
  IF i > Len(t) \/ t[i] = "]" THEN {}
  ELSE (IF t[i] = Quote THEN {StringContent(t, i)} ELSE {}) \cup
       ElementItems(t, SkipWs(t, SkipWs(t, ValueEnd(t, i) + 1) + 1))

\* a parsed JSON value, as far as the code looks at it: its Python type, the
\* keys of a dict, the strings in a list, the content of a str
JsonValue(kind, keys, items, content) ==
  [kind |-> kind, keys |-> keys, items |-> items, content |-> content]

JSONDecodeError == JsonValue("JSONDecodeError", {}, {}, <<>>)

\* json.loads(response_text)
json_loads(t) ==
  IF ValueEnd(t, SkipWs(t, 1)) = 0
       \/ SkipWs(t, ValueEnd(t, SkipWs(t, 1)) + 1) <= Len(t)
    THEN JSONDecodeError
  ELSE IF t[SkipWs(t, 1)] = "{"
    THEN JsonValue("dict", MemberKeys(t, SkipWs(t, SkipWs(t, 1) + 1)), {}, <<>>)
  ELSE IF t[SkipWs(t, 1)] = "["
    THEN JsonValue("list", {}, ElementItems(t, SkipWs(t, SkipWs(t, 1) + 1)), <<>>)
  ELSE IF t[SkipWs(t, 1)] = Quote
    THEN JsonValue("str", {}, {}, StringContent(t, SkipWs(t, 1)))
  ELSE IF t[SkipWs(t, 1)] = "null"
    THEN JsonValue("NoneType", {}, {}, <<>>)
  ELSE JsonValue("int", {}, {}, <<>>)

\* what a parsing function returns: None, or the parsed value with the keys
\* it holds and the keys that were added with the value None
Returned(kind, keys, added) == [kind |-> kind, keys |-> keys, added |-> added]

ReturnsNone == Returned("None", {}, {})

\* field in result, for a dict, a list and a str (the other types raise
\* TypeError)
FieldIn(field, result) ==
  CASE result.kind = "dict" -> <<field>> \in result.keys
    [] result.kind = "list" -> <<field>> \in result.items
    [] OTHER -> Contains(result.content, <<field>>)

\* the loop over required_fields and the return; result[field] = None is
\* defined for a dict only, every exception ends in a handler that returns None
ValidateFields(result, required_fields) ==
  LET fields == { required_fields[k] : k \in 1..Len(required_fields) }
  IN IF result.kind \in {"int", "NoneType"} THEN ReturnsNone
     ELSE IF result.kind = "dict"
       THEN Returned("dict", result.keys \cup { <<f>> : f \in fields },
                     { f \in fields : ~FieldIn(f, result) })
     ELSE IF \A f \in fields : FieldIn(f, result)
       THEN Returned(result.kind, {}, {})
     ELSE ReturnsNone

\* the answer of generate_content: an exception of the call, a response whose
\* text property raises, or a response with a text
Raises == [kind |-> "raises", text |-> <<>>]
Blocked == [kind |-> "blocked", text |-> <<>>]
Answer(text) == [kind |-> "text", text |-> text]

\* the body of the three parsing functions, for the required fields of each
ParseResponse(response, required_fields) ==
  IF response.kind # "text" \/ response.text = <<>> THEN ReturnsNone
  ELSE LET result == json_loads(TrimBraces(ExtractFence(Strip(response.text))))
       IN IF result = JSONDecodeError THEN ReturnsNone
          ELSE ValidateFields(result, required_fields)

\* GeocodingProcessor.call_gemini_api
call_gemini_api(response) == ParseResponse(response, GEOCODING_FIELDS)

\* CSVMasterProcessor.process_address_with_gemini
process_address_with_gemini(response) == ParseResponse(response, PROCESSING_FIELDS)
----------------------------------------------------------------------------
(* CSVMasterProcessor (csv_master_processor.py): combine_address_fields,    *)
(* geocode_with_google_maps, process_csv_batch and process_csv_file.        *)

\* the list address_fields; a row holds one cell for each, None where the
\* column or the field is missing
ADDRESS_FIELDS ==
  <<"Buyer Address1", "Buyer Address1 Number", "Buyer Address2", "Buyer Address3",
    "Buyer City", "Buyer State", "Buyer ZIP">>

INVALID_VALUES ==
  { <<"x","x","x">>, <<"0","0","0","0">>, <<"n","u","l","l">>, <<"n","o","n","e">>, <<>> }

\* the test of the loop: the cell is there, not empty, not blank, not one of
\* the invalid values
IsAddressPart(cell) ==
  /\ cell # None
  /\ cell # <<>>
  /\ Strip(cell) # <<>>
  /\ Lower(Strip(cell)) \notin INVALID_VALUES

RECURSIVE AddressParts(_, _)
AddressParts(cells, i) ==
  IF i > Len(cells) THEN <<>>
  ELSE (IF IsAddressPart(cells[i]) THEN <<Strip(cells[i])>> ELSE <<>>)
       \o AddressParts(cells, i + 1)

combine_address_fields(row) == Strip(JoinParts(AddressParts(row.cells, 1)))

\* the float literals of the code
Float(whole, tenths) == Number(<<whole, ".", tenths>>)

\* CSVMasterProcessor.geocode_with_google_maps: confidence_map and its default
MasterConfidenceMap ==
  [ROOFTOP |-> Float("1", "0"), RANGE_INTERPOLATED |-> Float("0", "8"),
   GEOMETRIC_CENTER |-> Float("0", "6"), APPROXIMATE |-> Float("0", "4")]

\* a slip of line 182: the default of the lookup is missing
MasterConfidenceNoDefault(location_type) ==
  IF location_type \in DOMAIN MasterConfidenceMap
    THEN MasterConfidenceMap[location_type]
    ELSE None

MasterConfidence(location_type) ==
  IF location_type \in DOMAIN MasterConfidenceMap
    THEN MasterConfidenceMap[location_type]
    ELSE Float("0", "5")

\* a value that an API put into the row; the model does not look into it
Opaque(name) == <<"<value>", name>>

\* the answer of the geocoding API: an exception anywhere in the try block
\* (the request, raise_for_status, response.json, a key that the JSON lacks),
\* or the decoded JSON with its status and the location_type of each result
GeoRaises == [kind |-> "raises", status |-> "", results |-> <<>>]
GeoReply(status, results) == [kind |-> "json", status |-> status, results |-> results]

\* the mapping that a geocoding function returns (the keys that
\* process_csv_batch reads, and location_type)
GeocodeDict(location_type, confidence) ==
  [kind |-> "dict",
   latitude |-> Opaque("lat"), longitude |-> Opaque("lng"),
   formatted_address |-> Opaque("formatted_address"),
   location_type |-> location_type,
   confidence_score |-> confidence,
   google_maps_link |-> Opaque("link")]

\* None, with the defaults that process_csv_batch writes for it
GeocodeNone ==
  [kind |-> "None",
   latitude |-> <<>>, longitude |-> <<>>, formatted_address |-> <<>>,
   location_type |-> "", confidence_score |-> <<>>, google_maps_link |-> <<>>]

\* the test of line 152
HasResult(reply) == reply.kind = "json" /\ reply.status = "OK" /\ reply.results # <<>>

\* CSVMasterProcessor.geocode_with_google_maps: None, or the mapping built
\* from the first result
geocode_with_google_maps(reply) ==
  IF HasResult(reply)
    THEN GeocodeDict(reply.results[1], MasterConfidence(reply.results[1]))
    ELSE GeocodeNone

\* gemini_result.get(key, default) on a mapping that holds every required
\* key: the value of the response, None for a key that was added
LlmGet(gemini_result, key) == IF key \in gemini_result.added THEN None ELSE Opaque(key)

ZERO == Float("0", "0")

\* the row of lines 217-232
NoAddressRow(row) ==
  [id |-> row.id,
   original_address |-> <<>>, normalized_address |-> <<>>,
   processed_state |-> <<>>, processed_city |-> <<>>, processed_street |-> <<>>,
   processed_country |-> <<>>, processing_confidence |-> ZERO,
   improvements_made |-> <<"No address found">>, address_quality |-> <<"None">>,
   google_latitude |-> <<>>, google_longitude |-> <<>>,
   google_formatted_address |-> <<>>, google_confidence |-> ZERO,
   google_maps_link |-> <<>>]

\* the row of lines 280-295
FailedRow(row, address) ==
  [id |-> row.id,
   original_address |-> address, normalized_address |-> address,
   processed_state |-> <<>>, processed_city |-> <<>>, processed_street |-> <<>>,
   processed_country |-> <<>>, processing_confidence |-> ZERO,
   improvements_made |-> <<"Failed to process">>, address_quality |-> <<"Unknown">>,
   google_latitude |-> <<>>, google_longitude |-> <<>>,
   google_formatted_address |-> <<>>, google_confidence |-> ZERO,
   google_maps_link |-> <<>>]

\* the row of lines 245-276
EnrichedRow(row, address, gemini_result, geocoding_result) ==
  [id |-> row.id,
   original_address |-> address,
   normalized_address |-> LlmGet(gemini_result, "normalized_address"),
   processed_state |-> LlmGet(gemini_result, "state"),
   processed_city |-> LlmGet(gemini_result, "city"),
   processed_street |-> LlmGet(gemini_result, "street"),
   processed_country |-> LlmGet(gemini_result, "country"),
   processing_confidence |-> LlmGet(gemini_result, "confidence_score"),
   improvements_made |-> LlmGet(gemini_result, "improvements_made"),
   address_quality |-> LlmGet(gemini_result, "address_quality"),
   google_latitude |-> geocoding_result.latitude,
   google_longitude |-> geocoding_result.longitude,
   google_formatted_address |-> geocoding_result.formatted_address,
   google_confidence |->
     IF geocoding_result.kind = "dict" THEN geocoding_result.confidence_score ELSE ZERO,
   google_maps_link |-> geocoding_result.google_maps_link]

\* gemini_result.get at line 242 raises AttributeError when the truthy
\* gemini_result is not a dict
RowRaises(row, response) ==
  /\ combine_address_fields(row) # <<>>
  /\ process_address_with_gemini(response).kind \in {"list", "str"}

\* the body of the loop of process_csv_batch for one row, where it does not raise
ProcessRow(row, response, reply) ==
  LET address == combine_address_fields(row)
      gemini_result == process_address_with_gemini(response)
  IN IF address = <<>> THEN NoAddressRow(row)
     ELSE IF gemini_result.kind = "None" THEN FailedRow(row, address)
     ELSE EnrichedRow(row, address, gemini_result, geocode_with_google_maps(reply))

\* line 320
TotalBatches(total_rows, batch_size) == (total_rows + batch_size - 1) \div batch_size

Min(a, b) == IF a <= b THEN a ELSE b

\* lines 328-330: rows[start_idx:end_idx] of batch batch_num (from 0)
BatchRows(rows, batch_num, batch_size) ==
  SubSeq(rows, batch_num * batch_size + 1, Min(batch_num * batch_size + batch_size, Len(rows)))
----------------------------------------------------------------------------
(* The other two geocoding functions: GoogleMapsGeocoder.geocode_address    *)
(* (google_maps_geocoder.py) and                                            *)
(* ParallelCSVProcessor.geocode_with_google_maps (csv_parallel_processor.py)*)

\* GoogleMapsGeocoder.geocode_address: confidence_map and its default
GeocoderConfidenceMap ==
  [ROOFTOP |-> Float("1", "0"), RANGE_INTERPOLATED |-> Float("0", "8"),
   GEOMETRIC_CENTER |-> Float("0", "6"), APPROXIMATE |-> Float("0", "4")]

GeocoderConfidence(location_type) ==
  IF location_type \in DOMAIN GeocoderConfidenceMap
    THEN GeocoderConfidenceMap[location_type]
    ELSE Float("0", "5")

\* ParallelCSVProcessor.geocode_with_google_maps: confidence_map and its default
ParallelConfidenceMap ==
  [ROOFTOP |-> Float("1", "0"), RANGE_INTERPOLATED |-> Float("0", "8"),
   GEOMETRIC_CENTER |-> Float("0", "6"), APPROXIMATE |-> Float("0", "4")]

ParallelConfidence(location_type) ==
  IF location_type \in DOMAIN ParallelConfidenceMap
    THEN ParallelConfidenceMap[location_type]
    ELSE Float("0", "5")

GeocodingFunctions ==
  {"GoogleMapsGeocoder.geocode_address", "CSVMasterProcessor.geocode_with_google_maps",
   "ParallelCSVProcessor.geocode_with_google_maps"}

\* confidence_map.get(location_type, 0.5) of each function
ConfidenceOf(function, location_type) ==
  CASE function = "GoogleMapsGeocoder.geocode_address" -> GeocoderConfidence(location_type)
    [] function = "CSVMasterProcessor.geocode_with_google_maps" -> MasterConfidence(location_type)
    [] OTHER -> ParallelConfidence(location_type)
----------------------------------------------------------------------------
(* The main functions of the scripts: csv_master_processor.py,              *)
(* csv_parallel_processor.py, geocoding_script.py, and batch_processor.py,  *)
(* which runs geocoding_script.py on each chunk of its input.               *)

Scripts ==
  {"csv_master_processor.py", "csv_parallel_processor.py", "geocoding_script.py",
   "batch_processor.py"}

EnvNames == {"GEMINI_API_KEY", "GOOGLE_MAPS_API_KEY", "VITE_GOOGLE_MAPS_API_KEY"}

\* os.getenv(name) is truthy: the variable is set and not empty
EnvHas(env, name) == env[name] = "set"

\* the test of len(sys.argv): the file arguments are there (argparse has a
\* default for each argument of geocoding_script.py)
ArgsOk(script, argv) == script = "geocoding_script.py" \/ argv.files

\* the key tests of each main; batch_processor.py has none
KeysOk(script, argv, env) ==
  CASE script = "csv_master_processor.py" ->
         /\ EnvHas(env, "GEMINI_API_KEY")
         /\ EnvHas(env, "GOOGLE_MAPS_API_KEY") \/ EnvHas(env, "VITE_GOOGLE_MAPS_API_KEY")
    [] script = "csv_parallel_processor.py" -> EnvHas(env, "GEMINI_API_KEY")
    [] script = "geocoding_script.py" -> argv.key \/ EnvHas(env, "GEMINI_API_KEY")
    [] OTHER -> TRUE

\* the exit status when the input file is read: "" where the run goes on to
\* the rows.  process_csv_file returns False for a file that cannot be opened
\* or decoded and for a file without rows, and main exits with 1; read_csv
\* exits with 1, and process_addresses returns for a file without rows;
\* split_csv has no handler, so the exception ends the interpreter with 1,
\* and a file without rows gives no chunk
InputExit(script, file) ==
  IF file \in {"missing", "unreadable"} THEN "1"
  ELSE IF file = "rows" THEN ""
  ELSE IF script \in {"csv_master_processor.py", "csv_parallel_processor.py"} THEN "1"
  ELSE "0"

\* the exit status of geocoding_script.py as batch_processor.py runs it on a
\* chunk: the environment is inherited, no --api-key is passed
ChildKeysOk(env) ==
  KeysOk("geocoding_script.py", [files |-> TRUE, key |-> FALSE], env)
----------------------------------------------------------------------------
(* ParallelCSVProcessor (csv_parallel_processor.py and                      *)
(* scripts/csv_parallel_processor.py): clean_paraguay_phone,                *)
(* process_single_row and process_csv_file.                                 *)

\* the two files that define the class
ParallelVersions == {"csv_parallel_processor.py", "scripts/csv_parallel_processor.py"}
SCRIPTS == "scripts/csv_parallel_processor.py"

\* ''.join(c for c in phone if c.isdigit() or c == '+')
DigitsAndPlus(phone) == SelectSeq(phone, LAMBDA c : c \in Digits \/ c = PLUS)

\* ''.join(c for c in cleaned if c.isdigit())
OnlyDigits(cleaned) == SelectSeq(cleaned, LAMBDA c : c \in Digits)

\* phone.split('/')[0]
RECURSIVE BeforeSlash(_)
BeforeSlash(phone) ==
  IF phone = <<>> \/ Head(phone) = "/" THEN <<>>
  ELSE <<Head(phone)>> \o BeforeSlash(Tail(phone))

\* lines 85-91 of the scripts file: the characters kept
KeptCharacters(phone) ==
  IF \E i \in 1..Len(phone) : phone[i] = "/"
    THEN OnlyDigits(Strip(BeforeSlash(phone)))
    ELSE DigitsAndPlus(phone)

\* lines 93-95: one leading zero removed
WithoutLeadingZero(cleaned) ==
  IF StartsWith(cleaned, <<"0">>) THEN DropFirst(cleaned, 1) ELSE cleaned

\* lines 97-108: the chain of length tests
FormatByLength(cleaned) ==
  IF Len(cleaned) = 9 THEN PLUS_CC_PY \o cleaned
  ELSE IF Len(cleaned) = 10 /\ StartsWith(cleaned, <<"0">>) THEN PLUS_CC_PY \o DropFirst(cleaned, 1)
  ELSE IF Len(cleaned) = 13 /\ StartsWith(cleaned, CC_PY) THEN <<PLUS>> \o cleaned
  ELSE IF Len(cleaned) = 12 /\ StartsWith(cleaned, CC_PY) THEN <<PLUS>> \o cleaned
  ELSE <<>>

\* ParallelCSVProcessor.clean_paraguay_phone of the scripts file
clean_paraguay_phone(phone) ==
  IF phone = <<>> THEN <<>>
  ELSE FormatByLength(WithoutLeadingZero(KeptCharacters(phone)))

\* '+595' followed by 9 digits
IsCanonicalPhone(p) ==
  /\ Len(p) = 13
  /\ StartsWith(p, PLUS_CC_PY)
  /\ IsDigitStr(DropFirst(p, 4))

\* the list required_fields of process_address_with_gemini in each file
PARALLEL_FIELDS == <<"cleaned_address", "state", "city", "street", "country">>
PARALLEL_PHONE_FIELDS == PARALLEL_FIELDS \o <<"phone">>

ParallelFields(version) ==
  IF version = SCRIPTS THEN PARALLEL_PHONE_FIELDS ELSE PARALLEL_FIELDS

\* ParallelCSVProcessor.process_address_with_gemini: the second component of
\* the pair it returns
parallel_process_address_with_gemini(version, response) ==
  ParseResponse(response, ParallelFields(version))

\* gemini_result.get('phone', ''): the value that the JSON object holds under
\* the key, None where the key was added by the validation
GeminiPhone(gemini_result, response) ==
  IF "phone" \in gemini_result.added THEN None ELSE response.phone

\* not gemini_phone or gemini_phone == phone (line 284 of the scripts file)
UsesFallback(gemini_phone, phone) ==
  gemini_phone = None \/ gemini_phone = <<>> \/ gemini_phone = phone

\* lines 283-288 and 301 of the scripts file: the value of the key 'phone'
CleanedPhone(phone, gemini_result, response) ==
  IF gemini_result.kind = "None" THEN clean_paraguay_phone(phone)
  ELSE IF UsesFallback(GeminiPhone(gemini_result, response), phone)
    THEN clean_paraguay_phone(phone)
  ELSE GeminiPhone(gemini_result, response)

PARAGUAY == <<"Paraguay">>

\* the dict of lines 207-215 of csv_parallel_processor.py
EmptyAddressRecord ==
  [original_address |-> <<>>, cleaned_address |-> <<>>, state |-> <<>>,
   city |-> <<>>, street |-> <<>>, country |-> PARAGUAY]

\* the dict of a row whose language-model call failed
FailedRecord(version, index, address, phone) ==
  IF version = SCRIPTS
    THEN [row_index |-> index, original_address |-> address, original_phone |-> phone,
          cleaned_address |-> address, state |-> <<>>, city |-> <<>>, street |-> <<>>,
          country |-> PARAGUAY, phone |-> clean_paraguay_phone(phone)]
    ELSE [original_address |-> address, cleaned_address |-> address, state |-> <<>>,
          city |-> <<>>, street |-> <<>>, country |-> PARAGUAY]

\* the dict of a row that the language model parsed
ParsedRecord(version, index, address, phone, gemini_result, response) ==
  IF version = SCRIPTS
    THEN [row_index |-> index, original_address |-> address, original_phone |-> phone,
          cleaned_address |-> LlmGet(gemini_result, "cleaned_address"),
          state |-> LlmGet(gemini_result, "state"),
          city |-> LlmGet(gemini_result, "city"),
          street |-> LlmGet(gemini_result, "street"),
          country |-> LlmGet(gemini_result, "country"),
          phone |-> CleanedPhone(phone, gemini_result, response)]
    ELSE [original_address |-> address,
          cleaned_address |-> LlmGet(gemini_result, "cleaned_address"),
          state |-> LlmGet(gemini_result, "state"),
          city |-> LlmGet(gemini_result, "city"),
          street |-> LlmGet(gemini_result, "street"),
          country |-> LlmGet(gemini_result, "country")]

\* the record that the handler of the as_completed loop builds for a future
\* that raised: the input row itself, updated, in csv_parallel_processor.py,
\* and a new dict in the scripts file
ErrorRecord(version, row) ==
  IF version = SCRIPTS
    THEN [original_address |-> <<"<str>", row.cells, row.phone>>,
          cleaned_address |-> <<"<Error>", "AttributeError">>, state |-> <<>>,
          city |-> <<>>, street |-> <<>>, country |-> PARAGUAY]
    ELSE [cells |-> row.cells, phone |-> row.phone,
          original_address |-> <<"<str>", row.cells, row.phone>>,
          cleaned_address |-> <<"<Error>", "AttributeError">>, state |-> <<>>,
          city |-> <<>>, street |-> <<>>, country |-> PARAGUAY]

\* what a future holds once its call of process_single_row has ended: the
\* dict returned, None (the scripts file, no address), or the exception
FutureResult(kind, record) == [kind |-> kind, record |-> record]

\* ParallelCSVProcessor.process_single_row((row_index, row)) with the answer
\* of the language model for that row; gemini_result.get raises
\* AttributeError when the truthy gemini_result is not a dict
process_single_row(version, index, row, response) ==
  LET address == combine_address_fields(row)
      gemini_result == parallel_process_address_with_gemini(version, response)
  IN IF address = <<>>
       THEN (IF version = SCRIPTS THEN FutureResult("None", <<>>)
             ELSE FutureResult("dict", EmptyAddressRecord))
     ELSE IF gemini_result.kind = "None"
       THEN FutureResult("dict", FailedRecord(version, index, address, row.phone))
     ELSE IF gemini_result.kind # "dict" THEN FutureResult("raised", <<>>)
     ELSE FutureResult("dict",
            ParsedRecord(version, index, address, row.phone, gemini_result, response))

\* a call of the language model is made for the row
CallsModel(row) == combine_address_fields(row) # <<>>

\* a slip: a handler that only prints the exception of a future
CollectedNoHandler(version, row, result) ==
  IF result.kind \in {"raised", "None"} THEN <<>> ELSE <<result.record>>

\* the body of the as_completed loop for one future: what it appends to
\* batch_results
Collected(version, row, result) ==
  IF result.kind = "raised" THEN <<ErrorRecord(version, row)>>
  ELSE IF result.kind = "None" THEN <<>>
  ELSE <<result.record>>

\* indexed_rows: the 0-based row indices of batch batch_num, in order
IndexedRows(total_rows, batch_num, batch_size) ==
  [i \in 1..(Min(batch_num * batch_size + batch_size, total_rows) - batch_num * batch_size) |->
     batch_num * batch_size + i - 1]

\* a slip: an executor that starts a thread for every call
CanStartUnbounded(running, max_workers) == TRUE

\* ThreadPoolExecutor(max_workers): a queued call starts when fewer than
\* max_workers calls are running

CanStart(running, max_workers) == Cardinality(running) < max_workers

\* the batch of a 0-based row index
BatchOf(index, batch_size) == index \div batch_size

\* a slip: the loop is left at the first future (wait for FIRST_COMPLETED,
\* shutdown(wait=False))
BatchCompleteEarly(indices, yielded) == \E i \in 1..Len(indices) : indices[i] \in yielded

\* the with block of the executor is left: the as_completed loop has yielded
\* every future of the batch

BatchComplete(indices, yielded) == \A i \in 1..Len(indices) : indices[i] \in yielded

\* a slip: every call is given the first row
RowOfFutureFirst(rows, index) == rows[1]

\* row_index, row = row_data: the row that a future was submitted with

RowOfFuture(rows, index) == rows[index + 1]

\* a future: not yet submitted, queued, running, done
Future(status, result) == [status |-> status, result |-> result]
NoResult == FutureResult("", <<>>)

Running(future) == { i \in DOMAIN future : future[i].status = "running" }
Pending(future) == { i \in DOMAIN future : future[i].status = "pending" }

\* an entry of batch_results: the record, and the row index of the future
\* that it was collected from (the index is not a key of the record)
Entry(index, record) == [row |-> index, record |-> record]

Entries(index, records) == [k \in 1..Len(records) |-> Entry(index, records[k])]
----------------------------------------------------------------------------
(* process_addresses of geocoding_script.py (GeocodingProcessor) and of     *)
(* address_processor.py (AddressProcessor): rows whose address is in the    *)
(* output file are skipped.                                                 *)

GEOCODING_SCRIPT == "geocoding_script.py"
ADDRESS_PROCESSOR == "address_processor.py"
ResumeScripts == {GEOCODING_SCRIPT, ADDRESS_PROCESSOR}

\* the list address_fields of GeocodingProcessor.combine_address_fields; a row
\* holds one cell for each, None where the column or the field is missing
GS_ADDRESS_FIELDS ==
  <<"Buyer Address", "Address", "Street Address", "Street", "Buyer City", "City",
    "Buyer State", "State", "Province", "Buyer ZIP", "ZIP", "Postal Code", "ZIP Code">>

\* the test of its loop: the cell is there, not empty, not blank
IsGsPart(cell) == cell # None /\ cell # <<>> /\ Strip(cell) # <<>>

RECURSIVE GsParts(_, _)
GsParts(cells, i) ==
  IF i > Len(cells) THEN <<>>
  ELSE (IF IsGsPart(cells[i]) THEN <<Strip(cells[i])>> ELSE <<>>) \o GsParts(cells, i + 1)

\* GeocodingProcessor.combine_address_fields
gs_combine_address_fields(row) == Strip(JoinParts(GsParts(row.cells, 1)))

\* self.combine_address_fields(row) of each script
CombineOf(script, row) ==
  IF script = GEOCODING_SCRIPT THEN gs_combine_address_fields(row)
  ELSE combine_address_fields(row)

\* self.call_gemini_api(prompt) of each script
CallOf(script, response) ==
  ParseResponse(response,
                IF script = GEOCODING_SCRIPT THEN GEOCODING_FIELDS ELSE PROCESSING_FIELDS)

\* the columns that the loop adds to a row whose call returned a dict
SuccessColumns(script, address, result) ==
  IF script = GEOCODING_SCRIPT
    THEN [gemini_latitude |-> LlmGet(result, "latitude"),
          gemini_longitude |-> LlmGet(result, "longitude"),
          gemini_zip_code |-> LlmGet(result, "zip_code"),
          gemini_confidence |-> LlmGet(result, "confidence_score"),
          gemini_explanation |-> LlmGet(result, "explanation"),
          google_maps_link |-> LlmGet(result, "google_maps_link")]
    ELSE [original_address |-> address,
          normalized_address |-> LlmGet(result, "normalized_address"),
          processed_state |-> LlmGet(result, "state"),
          processed_city |-> LlmGet(result, "city"),
          processed_street |-> LlmGet(result, "street"),
          processed_country |-> LlmGet(result, "country"),
          processing_confidence |-> LlmGet(result, "confidence_score"),
          improvements_made |-> LlmGet(result, "improvements_made"),
          address_quality |-> LlmGet(result, "address_quality")]

\* the columns that it adds where the call returned None
FailureColumns(script, address) ==
  IF script = GEOCODING_SCRIPT
    THEN [gemini_latitude |-> None, gemini_longitude |-> None, gemini_zip_code |-> None,
          gemini_confidence |-> None, gemini_explanation |-> <<"Failed to geocode">>,
          google_maps_link |-> None]
    ELSE [original_address |-> address, normalized_address |-> address,
          processed_state |-> None, processed_city |-> None, processed_street |-> None,
          processed_country |-> None, processing_confidence |-> ZERO,
          improvements_made |-> <<"Failed to process">>,
          address_quality |-> <<"Unknown">>]

\* a row of new_data: the cells of the input row and the added columns
ProcessedRow(script, row, result) ==
  [cells |-> row.cells,
   added |-> IF result.kind = "None"
               THEN FailureColumns(script, CombineOf(script, row))
               ELSE SuccessColumns(script, CombineOf(script, row), result)]

\* result.get raises AttributeError where the truthy result is not a dict
GetRaises(result) == result.kind \notin {"None", "dict"}

\* csv.DictWriter writes '' for None and str() of a number; csv.DictReader
\* reads every cell back as the text written
WriteCell(v) == IF v = None THEN <<>> ELSE Str(v)

\* a row as write_csv writes it and read_csv reads it back
WrittenRow(r) ==
  [cells |-> [k \in DOMAIN r.cells |-> WriteCell(r.cells[k])],
   added |-> [f \in DOMAIN r.added |-> WriteCell(r.added[f])]]

WrittenRows(data) == [k \in 1..Len(data) |-> WrittenRow(data[k])]

\* the output file: it does not exist, or it holds rows
NoFile == [exists |-> FALSE, rows |-> <<>>]
FileOf(rows) == [exists |-> TRUE, rows |-> rows]

\* get_processed_addresses(output_file)
get_processed_addresses(script, file) ==
  { CombineOf(script, file.rows[k]) : k \in 1..Len(file.rows) } \ {<<>>}

\* a slip: the addresses of the output file are not read
SkipsNothing(address, processed_addresses) == FALSE

\* address in processed_addresses
AlreadyProcessed(address, processed_addresses) == address \in processed_addresses

\* all_data = existing_data + new_data
CombineData(existing_data, new_data) == existing_data \o new_data
----------------------------------------------------------------------------
(* batch_processor.py: split_csv and process_chunks.                        *)

\* the header row of the input file
HEADER == <<"header">>

\* f"chunk_{chunk_count}.csv" and f"result_{i}.csv"
ChunkFile(chunk_count) == <<"chunk", chunk_count>>
ResultFile(i) == <<"result", i>>

\* a file on disk
File(name, content) == [name |-> name, content |-> content]

\* open(name, 'w') and writerows: the file is created or replaced
WriteFile(files, name, content) ==
  { f \in files : f.name # name } \cup { File(name, content) }

\* os.remove(name)
RemoveFile(files, name) == { f \in files : f.name # name }

OnDisk(files, name) == \E f \in files : f.name = name

ContentOf(files, name) == (CHOOSE f \in files : f.name = name).content

\* a slip: the chunk is written when it holds chunk_size rows with the header
ChunkFullEarly(chunk, chunk_size) == Len(chunk) >= chunk_size

\* len(chunk) > chunk_size (line 27)
ChunkFull(chunk, chunk_size) == Len(chunk) > chunk_size

\* len(chunk) > 1 (line 39)
HasData(chunk) == Len(chunk) > 1

\* how a run of the geocoding script ends: exit status 0 with a result file,
\* exit status 0 without one (no row had an address), exit status 1, or
\* subprocess.run raises
Outcomes == {"0", "0, no file", "1", "raises"}

\* a slip: the result file is listed whatever the exit status
SucceededAlways(outcome) == TRUE

\* result.returncode == 0, reached where subprocess.run did not raise
Succeeded(outcome) == outcome \in {"0", "0, no file"}

\* i < len(chunks) (line 79)
WaitsAfter(i, chunks) == i < Len(chunks)

\* a run of the subprocess for a chunk file
Attempt(chunk_file, outcome) == [file |-> chunk_file, outcome |-> outcome]
----------------------------------------------------------------------------
(* Inputs of normalize_city_state: cells of the 'Buyer City' and           *)
(* 'Buyer State' columns.                                                  *)

CityInputs ==
  { NaN,
    <<>>,
    <<" "," ">>,
    <<"l","a","m","b","a","r","e">>,
    <<" ","L","A","M","B","A","R","E"," ">>,
    <<"L","a","m","b","a","r","e^">>,
    <<"e","n","c","a","r","n","a","c","i","o">>,
    <<"l","u","q","e">>,
    <<"g","u","a","i","r","a">>,
    <<"n~","e","m","b","y">>,
    <<"c","i","u","d","a","d"," ","n","u","e","v","a">>,
    <<"c","a","a","g","u","a","z","u">>,
    <<"i","t","a","p","u","a">>,
    <<"x","y","z"," ","t","o","w","n">> }

StateInputs ==
  { NaN,
    <<>>,
    <<"i","t","a","p","u","a">>,
    <<"C","e","n","t","r","a","l">>,
    <<"I","t","a","p","u","a","a">>,
    <<"l","a","m","b","a","r","e">>,
    <<"c","a","a","c","u","p","e">>,
    <<"a","l","t","o"," ","p","a","r","a","n","a">>,
    <<"A","L","T","O"," ","P","A","R","A","N","A^">>,
    <<"x","x">>,
    <<"s","a","n"," ","p","e","d","r","o">>,
    <<"g","u","a","i","r","a"," ","d","p","t","o">> }

FuzzyTexts ==
  { <<>>,
    <<" ">>,
    <<"l","u","e","b","y">>,
    <<"l","u","q","e">>,
    <<"L","a","m","b","a","r","e">>,
    <<"a","l","t","o"," ","p","a","r","a","n","a">>,
    <<"s","a","n"," ","a","n","t","o","n","i">>,
    <<"c","a","a","g","u","a","z","u">>,
    <<"z","z","z">>,
    <<"A","S","U","N","C","I","O","N"," ">>,
    <<"i","t","a","p","u","a","a">>,
    <<"v","i","l","l","a"," ","e","l","i","s">> }
----------------------------------------------------------------------------
(* Inputs of normalize_phone: cells of the 'Buyer Phone' column.           *)

PhoneInputs ==
  { NaN,
    <<>>,
    <<" "," "," ">>,
    <<"9","8","5","7","2","8","1","1","9">>,
    <<"0","9","8","5","7","2","8","1","1","9">>,
    <<"0","9","8","5"," ","7","2","8"," ","1","1","9">>,
    <<"9","8","5"," ","7","2","8"," ","1","1","9">>,
    <<"0","9","8","5","-","7","2","8","-","1","1","9">>,
    <<"7","7","3","9","7","7","8","2","4","4">>,
    <<"7","7","3","9","7","7","8","2","4","4","/","7","7","3","9","7","7","8","2","4","4">>,
    <<"9","8","5","7","2","8","1","1","9","/","9","8","5","7","2","8","1","1","9">>,
    <<"2","1","2","3","4","5","6","7","8","/","9","8","5","7","2","8","1","1","9">>,
    <<"2","1","2","3","4","5","6","7","8">>,
    <<"9","8","5","7","2","8","1","1","9",","," ","2","1","2","3","4","5","6","7","8">>,
    <<"1","2","3","4","5","6","7","8","9">>,
    <<"1","2","3","4","5","6","7","8","9","/","1","2","3","4","5","6","7","8","9","0">>,
    <<"0","0","2","8","1","2","3","4","5">>,
    <<"+","5","9","5","9","8","5","7","2","8","1","1","9">>,
    <<"+","5","9","5","9","8","5","7","2","8","1","1","9","0","1","2">>,
    <<"+","5","9","5","9","8">>,
    <<"0","0","0","0","0","0">>,
    <<"1","2","3","4","5">>,
    <<"1","2","3","4","5","6","7","8","9","0","1","2","3","4","5","6">>,
    <<"9","8","5","+","7","2","8","1","1","9">>,
    <<"9","8","5","7","2","/","8","1","1","9">>,
    <<"5","9","5","9","8","5","7","2","8","1","1","9">>,
    <<"+","0","9","8","5","7","2","8","1","1","9">>,
    <<"0","1","2","3","4","5","6","7","8","9">>,
    <<"0","0","5","9","5","9","8","5","7","2","8","1","1","9">>,
    <<"t","e","l"," ","0","9","8","5","7","2","8","1","1","9">> }

----------------------------------------------------------------------------
(* Inputs of normalize_address: cells of the address columns.              *)

AddressFragments ==
  { NaN,
    <<>>,
    <<" ">>,
    <<"N","/","A">>,
    <<"a","@","b",".","c","o">>,
    <<"C","o","r","r","e","o"," ","P","a","r","a","g","u","a","y","o">>,
    <<"a","@","b",".","c","o"," ",","," ",","," ",","," ","C","P","-","1","2">>,
    <<"A","v","."," ","E","s","p","a","n","a"," ","1","2">>,
    <<"c","/"," ","B","r","a","s","i","l"," ","k","m","5">>,
    <<"C","a","l","l","e"," ","1"," ","p","a","r","t","i","c","u","l","a","r"," ","c","a","s","a">>,
    <<"m","i","c","a","s","a">>,
    <<"c","a","s","a">>,
    <<"l","a"," ","c","a","s","a"," ","g","r","a","n","d","e">>,
    <<"G","r","a","l","."," ","D","i","a","z",","," ","c","a","s","a">>,
    <<","," ","x"," ",",">> }

\* lists of three and four fragments
AddressLists ==
  { << <<"A","v","."," ","E","s","p","a","n","a"," ","1","2">>,
       NaN,
       <<"c","a","s","a"," ","3">> >>,
    << <<"N","/","A">>,
       <<"c","/"," ","B","r","a","s","i","l"," ","k","m","5">>,
       <<"a","@","b",".","c","o">>,
       <<"L","a","m","b","a","r","e">> >>,
    << <<"K","m",".","7">>,
       <<"0","0","0">>,
       <<"a","@","b",".","c","o"," ",","," ",","," ",","," ","C","P","-","1","2">>,
       <<"y","a","t","c","h"," ","c","l","u","b">> >> }

MaxParts == 2

\* the lists of at most MaxParts fragments, the empty list among them, and the
\* longer lists of AddressLists
AddressInputs ==
  UNION { [1..n -> AddressFragments] : n \in 0..MaxParts } \cup AddressLists

----------------------------------------------------------------------------
(* Input files of main: the columns of the file and its lines.             *)

INPUT_COLS ==
  {"Buyer Address1", "Buyer Address1 Number", "Buyer Address2", "Buyer Address3",
   "Buyer City", "Buyer State", "Buyer Phone", "Buyer Email"}

\* the column sets of the input files: every column; no state column; no city
\* column; no e-mail column; neither address nor phone columns
Layouts ==
  { INPUT_COLS,
    INPUT_COLS \ {"Buyer State"},
    INPUT_COLS \ {"Buyer City"},
    INPUT_COLS \ {"Buyer Email"},
    {"Buyer City", "Buyer State", "Buyer Email"} }

\* the lines of the input files, cell by cell
RawRows ==
  {
    \* a house in Lambare with both contacts
    ("Buyer Address1" :> <<"A","v","."," ","E","s","p","a","n","a"," ","1","2">> @@
     "Buyer Address1 Number" :> NaN @@
     "Buyer Address2" :> <<"c","a","s","a">> @@
     "Buyer Address3" :> NaN @@
     "Buyer City" :> <<"l","a","m","b","a","r","e">> @@
     "Buyer State" :> <<"C","e","n","t","r","a","l">> @@
     "Buyer Phone" :> <<"0","9","8","5","7","2","8","1","1","9">> @@
     "Buyer Email" :> <<"A","n","a","@","M","a","i","l",".","c","o","m">>),
    \* the same record written differently
    ("Buyer Address1" :> <<"A","v","d","a","."," "," ","E","s","p","a","n","a"," "," ","1","2">> @@
     "Buyer Address1 Number" :> NaN @@
     "Buyer Address2" :> NaN @@
     "Buyer Address3" :> NaN @@
     "Buyer City" :> <<" ","L","A","M","B","A","R","E"," ">> @@
     "Buyer State" :> <<"i","t","a","p","u","a">> @@
     "Buyer Phone" :> <<"9","8","5","7","2","8","1","1","9">> @@
     "Buyer Email" :> <<"a","n","a","@","m","a","i","l",".","c","o","m"," ","/"," ","x">>),
    \* no city cell, the city is in the address, the state names another department
    ("Buyer Address1" :> <<"c","/"," ","B","r","a","s","i","l",","," ","l","u","q","u","e">> @@
     "Buyer Address1 Number" :> NaN @@
     "Buyer Address2" :> NaN @@
     "Buyer Address3" :> NaN @@
     "Buyer City" :> NaN @@
     "Buyer State" :> <<"i","t","a","p","u","a">> @@
     "Buyer Phone" :> NaN @@
     "Buyer Email" :> <<"b","o","@","m","a","i","l",".","c","o","m">>),
    \* an empty line
    ("Buyer Address1" :> NaN @@
     "Buyer Address1 Number" :> NaN @@
     "Buyer Address2" :> NaN @@
     "Buyer Address3" :> NaN @@
     "Buyer City" :> NaN @@
     "Buyer State" :> NaN @@
     "Buyer Phone" :> NaN @@
     "Buyer Email" :> NaN),
    \* an address without a usable contact; the state cell holds the number of
    \* the department
    ("Buyer Address1" :> <<"K","m"," ","5">> @@
     "Buyer Address1 Number" :> NaN @@
     "Buyer Address2" :> NaN @@
     "Buyer Address3" :> NaN @@
     "Buyer City" :> <<" "," ">> @@
     "Buyer State" :> <<"1","1">> @@
     "Buyer Phone" :> <<"1","2","3","4","5">> @@
     "Buyer Email" :> <<"b","a","d","@","n","o","m","x",".","p","y">>),
    \* a city without address or state
    ("Buyer Address1" :> NaN @@
     "Buyer Address1 Number" :> NaN @@
     "Buyer Address2" :> NaN @@
     "Buyer Address3" :> NaN @@
     "Buyer City" :> <<"l","u","q","u","e">> @@
     "Buyer State" :> NaN @@
     "Buyer Phone" :> <<"0","9","8","1","1","2","3","4","5","6">> @@
     "Buyer Email" :> NaN)
  }

\* the largest number of lines of an input file
MaxRows == 3

\* the frames load_df gives for the files of 1..MaxRows lines
LoadedFrames(cols) ==
  UNION { { read_csv(cols, raw) : raw \in [1..n -> RawRows] } : n \in 1..MaxRows }

----------------------------------------------------------------------------
(* Responses of the generative-language API.                                *)

JsonString(words) == <<Quote>> \o words \o <<Quote>>

\* an object with the given keys, each with the value 1
JsonObject(keys) ==
  <<"{">> \o
  Concat([k \in 1..Len(keys) |->
            (IF k > 1 THEN <<",", " ">> ELSE <<>>) \o <<Quote, keys[k], Quote, ":", " ", "1">>],
         1, Len(keys)) \o
  <<"}">>

\* an array of the given strings
JsonArray(keys) ==
  <<"[">> \o
  Concat([k \in 1..Len(keys) |->
            (IF k > 1 THEN <<",", " ">> ELSE <<>>) \o <<Quote, keys[k], Quote>>],
         1, Len(keys)) \o
  <<"]">>

\* the given words with a blank between them
Words(keys) ==
  Concat([k \in 1..Len(keys) |-> (IF k > 1 THEN <<" ">> ELSE <<>>) \o <<keys[k]>>],
         1, Len(keys))

FieldLists == {GEOCODING_FIELDS, PROCESSING_FIELDS}

\* what the text can hold where the JSON object is expected
ResponseBodies ==
  UNION { { JsonObject(F), JsonObject(SubSeq(F, 1, 2)),
            JsonArray(F), JsonArray(SubSeq(F, 1, 2)),
            JsonString(Words(F)), JsonString(SubSeq(F, 1, 1)) } : F \in FieldLists }
  \cup { <<"{", "}">>, <<"[", "]">>, <<"1">>, <<"null">>, <<>>,
         <<"sorry", " ", "no", " ", "address">>,
         <<"{", Quote, "state", Quote, ":", "}">>,
         <<"{", Quote, "state", Quote, ":", "null", ",", "}">>,
         <<"{", Quote, "state", Quote, ":", "{", Quote, "city", Quote, ":", "1", "}", ",",
           " ", Quote, "street", Quote, ":", "[", "1", ",", Quote, "a", Quote, "]", "}">>,
         <<"{", "}", " ", "or", " ", "{", "}">>,
         <<"}", " ", "{">>,
         <<"[", Quote, "state", Quote, ",", "]">> }

\* how the text wraps it: bare, between blanks, in prose, in a json fence, in
\* a plain fence, in a fence that is not closed
Wrapped(body) ==
  { body,
    <<" ">> \o body \o <<" ">>,
    <<"here", " ">> \o body \o <<" ", "thanks">>,
    <<Fence, "json", " ">> \o body \o <<" ", Fence>>,
    <<Fence, " ">> \o body \o <<" ", Fence, " ", "thanks">>,
    <<Fence, "json", " ">> \o body }

Responses ==
  {Raises, Blocked} \cup { Answer(text) : text \in UNION { Wrapped(b) : b \in ResponseBodies } }

GeminiFunctions ==
  {"GeocodingProcessor.call_gemini_api", "AddressProcessor.call_gemini_api",
   "CSVMasterProcessor.process_address_with_gemini"}

\* the list required_fields of each function
RequiredFields(function) ==
  IF function = "GeocodingProcessor.call_gemini_api" THEN GEOCODING_FIELDS ELSE PROCESSING_FIELDS
----------------------------------------------------------------------------
(* Inputs of process_csv_file: the rows of the input file, and what the two *)
(* APIs answer for a row.                                                  *)

\* the address cells of a row, in the order of ADDRESS_FIELDS
RowCells ==
  { <<<<"A","v"," ","1">>, <<>>, None, <<>>, <<"L","u","q","u","e">>, <<>>, <<"0","0","0","0">>>>,
    <<<<"X","X","X">>, <<" ">>, None, None, <<"n","u","l","l">>, <<"N","o","n","e">>, <<>>>>,
    <<<<" ","K","m"," ","5"," ">>, <<>>, <<>>, <<>>, <<>>, <<>>, <<>>>> }

MaxBatchRows == 3

\* the files: a file that cannot be opened, and the files of 0..MaxBatchRows rows
InputFiles ==
  { [readable |-> FALSE, rows |-> <<>>] } \cup
  UNION { { [readable |-> TRUE, rows |-> [k \in 1..n |-> [id |-> k, cells |-> c[k]]]] :
              c \in [1..n -> RowCells] } : n \in 0..MaxBatchRows }

BatchSizes == {1, 2}

\* what generate_content answers for a row
BatchResponses ==
  { Raises,
    Answer(JsonObject(PROCESSING_FIELDS)),
    Answer(<<Fence, "json", " ">> \o JsonObject(SubSeq(PROCESSING_FIELDS, 2, 3)) \o <<" ", Fence>>),
    Answer(JsonArray(PROCESSING_FIELDS)) }

\* what the geocoding API answers for a row
BatchReplies ==
  { GeoRaises, GeoReply("ZERO_RESULTS", <<>>), GeoReply("OK", <<>>),
    GeoReply("OK", <<"ROOFTOP", "APPROXIMATE">>) }
----------------------------------------------------------------------------
(* Answers of the geocoding API.                                           *)

\* the four codes of the API, and strings that are none of them
LocationTypes ==
  {"ROOFTOP", "RANGE_INTERPOLATED", "GEOMETRIC_CENTER", "APPROXIMATE", "PLACE", "rooftop", ""}

GeoStatuses == {"OK", "ZERO_RESULTS", "OVER_QUERY_LIMIT"}

GeoResultLists ==
  {<<>>} \cup { <<t>> : t \in LocationTypes } \cup { <<t, "ROOFTOP">> : t \in LocationTypes }

GeoReplies == {GeoRaises} \cup { GeoReply(s, r) : s \in GeoStatuses, r \in GeoResultLists }
----------------------------------------------------------------------------
(* Command lines, environments and input files of the scripts.             *)

\* the file arguments are given or not; --api-key exists for
\* geocoding_script.py only
ArgvOf(script) ==
  IF script = "geocoding_script.py"
    THEN { [files |-> TRUE, key |-> k] : k \in BOOLEAN }
    ELSE { [files |-> f, key |-> FALSE] : f \in BOOLEAN }

Environments == [EnvNames -> {"unset", "empty", "set"}]

\* the input file: not there, there but open or the decoding fails, a header
\* without rows, a header and rows
InputKinds == {"missing", "unreadable", "header", "rows"}
----------------------------------------------------------------------------
(* Inputs of ParallelCSVProcessor: phone cells, rows with the answer of     *)
(* the language model for each, batch sizes and pool sizes.                 *)

ParallelPhones ==
  { <<>>,
    <<"+","5","9","5","9","8","5","7","2","8","1","1","9">>,
    <<"0","9","8","5"," ","7","2","8"," ","1","1","9">>,
    <<"0","9","8","5","7","2","8","1","1","9">>,
    <<"9","8","5","7","2","8","1","1","9">>,
    <<"5","9","5","9","8","5","7","2","8","1","1","9">>,
    <<"5","9","5","9","8","5","7","2","8","1","1","9","0">>,
    <<"+","1","2","3","4","5","6","7","8">>,
    <<"7","7","3","9","7","7","8","2","4","4","/","7","7","3","9","7","7","8","2","4","4">>,
    <<"0","9","8","5","7","2","8","1","1","9","/","0","9","8","5","7","2","8","1","1","9">>,
    <<"1","2","3","4","5">>,
    <<"0","0","9","8","5","7","2","8","1","1","9">>,
    <<"(","0","9","8","5",")"," ","7","2","8","-","1","1","9">>,
    <<"+","5","9","5"," ","9","8","5"," ","7","2","8"," ","1","1","9">>,
    <<"a","b","c">>,
    <<"9","8","5","7","2","8","1","1","9"," ","5">>,
    <<"+","5","9","5","9","8","5","7","2","8","1","1","9","/">>,
    <<"/","0","9","8","5","7","2","8","1","1","9">>,
    <<" ","9","8","5","7","2","8","1","1","9","/"," ","1">>,
    <<"+","9","8","5","7","2","8","1","1","9">>,
    <<"0","+","9","8","5","7","2","8","1","1">>,
    <<"0","5","9","5","9","8","5","7","2","8","1","1","9">>,
    <<"+","0","9","8","5","7","2","8","1","1","9">>,
    <<"9","8","5","-","7","2","8","-","1","1","9">>,
    <<"5","9","5","9","8","5","7","2","8","1","1">>,
    <<"+","5","9","5","9","8","5","7","2","8","1","1","9","0">>,
    <<"0">>,
    <<"+">>,
    <<"9","8","5","7","2","8","1","1">>,
    <<"9","8","5","7","2","8","1","1","9","0">>,
    <<"+","5","9","5","9","8","5","7","2","8","1","1","9"," ">>,
    <<"5","9","5","0","9","8","5","7","2","8","1","1","9">>,
    <<"+","5","9","5","9","8","5","7","2","8","1","1">>,
    <<"0","0","5","9","5","9","8","5","7","2","8","1","1","9">>,
    <<"0","9","8","5"," ","7","2","8"," ","1","1","9","/","0","9","7","1"," ","1","1","1"," ","2","2","2">>,
    <<"+","5","9","5","9","8","5","7","2","8","1","1","9","/","+","5","9","5","9","7","1","1","1","1","2","2","2">> }

CanonicalPhone == <<"+","5","9","5","9","8","5","7","2","8","1","1","9">>
OtherCanonicalPhone == <<"+","5","9","5","9","7","1","1","1","1","2","2","2">>

\* the answer of the language model with the value that its JSON object
\* holds under the key 'phone' (the texts of the model write 1 for every value)
PhoneAnswer(text, phone) == [kind |-> "text", text |-> text, phone |-> phone]
NoAnswer == [kind |-> "raises", text |-> <<>>, phone |-> None]

\* what generate_content answers to a row with the given phone: it raises, an
\* object without the key 'phone', an object with an empty phone, with the
\* phone of the row, with another phone, and an array that names every key
PhoneResponses(phone) ==
  { NoAnswer,
    PhoneAnswer(JsonObject(PARALLEL_FIELDS), None),
    PhoneAnswer(JsonObject(PARALLEL_PHONE_FIELDS), <<>>),
    PhoneAnswer(JsonObject(PARALLEL_PHONE_FIELDS), phone),
    PhoneAnswer(<<Fence, "json", " ">> \o JsonObject(PARALLEL_PHONE_FIELDS) \o <<" ", Fence>>,
                OtherCanonicalPhone),
    PhoneAnswer(JsonArray(PARALLEL_PHONE_FIELDS), None) }

Address1 == <<<<"A","v"," ","1">>, <<>>, None, <<>>, <<"L","u","q","u","e">>, <<>>, <<"0","0","0","0">>>>
Address2 == <<<<" ","K","m"," ","5"," ">>, <<>>, <<>>, <<>>, <<>>, <<>>, <<>>>>
NoAddress == <<<<"X","X","X">>, <<" ">>, None, None, <<"n","u","l","l">>, <<"N","o","n","e">>, <<>>>>

\* a row of the input file with the answer of the language model for it
RowCase(cells, phone, response) == [cells |-> cells, phone |-> phone, response |-> response]

RowCases ==
  { RowCase(NoAddress, CanonicalPhone, NoAnswer),
    RowCase(Address1, CanonicalPhone, PhoneAnswer(JsonObject(PARALLEL_PHONE_FIELDS), CanonicalPhone)),
    RowCase(Address2, <<"0","9","8","5","7","2","8","1","1","9">>, NoAnswer),
    RowCase(Address1, <<>>, PhoneAnswer(JsonArray(PARALLEL_PHONE_FIELDS), None)) }

MaxPoolRows == 3

\* the files of 0..MaxPoolRows rows
PoolInputs == UNION { [1..n -> RowCases] : n \in 0..MaxPoolRows }

PoolBatchSizes == {1, 2, 3}
PoolWorkers == {1, 2}
----------------------------------------------------------------------------
(* Inputs of process_addresses: the rows of the input file with the answer  *)
(* of the language model for each, and the output file of an earlier run.   *)

\* the cells of a row of geocoding_script.py, in the order of GS_ADDRESS_FIELDS
GsAddress1 ==
  <<None, <<"A","v"," ","1">>, None, None, None, <<"L","u","q","u","e">>, None, <<>>,
    None, None, None, None, None>>
GsAddress2 ==
  <<None, <<>>, None, <<" ","K","m"," ","5"," ">>, None, <<>>, None, <<>>,
    None, None, None, None, None>>
GsNoAddress ==
  <<None, <<>>, None, <<" ">>, None, <<>>, None, None, None, None, None, None, None>>

ResumeCells(script, kind) ==
  IF script = GEOCODING_SCRIPT
    THEN (CASE kind = "1" -> GsAddress1 [] kind = "2" -> GsAddress2 [] OTHER -> GsNoAddress)
    ELSE (CASE kind = "1" -> Address1 [] kind = "2" -> Address2 [] OTHER -> NoAddress)

ResumeFields(script) ==
  IF script = GEOCODING_SCRIPT THEN GEOCODING_FIELDS ELSE PROCESSING_FIELDS

\* a row of the input file with the answer of the language model for it
ResumeCase(script, kind, response) ==
  [cells |-> ResumeCells(script, kind), response |-> response]

ResumeCases(script) ==
  { ResumeCase(script, "1", Answer(JsonObject(ResumeFields(script)))),
    ResumeCase(script, "1", Raises),
    ResumeCase(script, "2",
      Answer(<<Fence, "json", " ">> \o JsonObject(SubSeq(ResumeFields(script), 2, 3))
             \o <<" ", Fence>>)),
    ResumeCase(script, "", Raises),
    ResumeCase(script, "2", Answer(JsonArray(ResumeFields(script)))) }

MaxResumeRows == 3

ResumeInputs(script) == UNION { [1..n -> ResumeCases(script)] : n \in 0..MaxResumeRows }

\* the rows that an earlier run wrote for the given cases
EarlierRows(script, cases) ==
  WrittenRows([k \in 1..Len(cases) |->
     ProcessedRow(script, [cells |-> cases[k].cells], CallOf(script, cases[k].response))])

\* the output file before the run: none, a header without rows, the rows of
\* an earlier run
ResumeFiles(script) ==
  { NoFile, FileOf(<<>>),
    FileOf(EarlierRows(script, <<ResumeCase(script, "1", Raises)>>)),
    FileOf(EarlierRows(script,
      <<ResumeCase(script, "2", Answer(JsonObject(ResumeFields(script)))),
        ResumeCase(script, "1", Answer(JsonObject(ResumeFields(script))))>>)) }
----------------------------------------------------------------------------
(* Inputs of split_csv: the data rows of the input file, and chunk_size.    *)

DataRow(k) == <<"row", k>>

MaxChunkRows == 5
MaxChunkSize == 3

\* the files with a header and 0..MaxChunkRows data rows
ChunkInputs == { [k \in 1..n |-> DataRow(k)] : n \in 0..MaxChunkRows }

\* chunk_size: int(sys.argv[2]), not tested by main
ChunkSizes == 0..MaxChunkSize
----------------------------------------------------------------------------
(* normalize_city_state, one step per block of the function.               *)

csVars == <<city_raw, state_raw, city, state>>
fzVars == <<fz_text, fz_cands, fz_thr, fz_i, best_match, best_score>>
phVars == <<phone_raw, phone_candidates, ph_i, valid_phones, parsed_log, ph_out>>
mainVars == <<columns, df, df_valid, df_clean, output>>
adVars == <<ad_parts, ad_cleaned, ad_combined, ad_out, ad_again>>
gmVars == <<gm_function, gm_response, gm_text, gm_value, gm_result>>
coreVars == <<csVars, fzVars, phVars, mainVars>>
bpVars ==
  <<bp_file, bp_size, bp_rows, bp_batch, bp_i, bp_processed, bp_all, bp_output, bp_return>>
gcVars == <<gc_function, gc_reply, gc_location_type, gc_result>>
scVars == <<sc_script, sc_argv, sc_env, sc_file, sc_called, sc_exit>>
pnVars == <<pn_phone, pn_response, pn_cleaned, pn_again, pn_result>>
ppVars ==
  <<pp_version, pp_rows, pp_responses, pp_size, pp_workers, pp_batch, pp_future,
    pp_yielded, pp_batch_results, pp_all, pp_output, pp_return>>
raVars ==
  <<ra_script, ra_rows, ra_answers, ra_file, ra_before, ra_run, ra_i, ra_processed,
    ra_existing, ra_new, ra_calls, ra_exit>>
chVars ==
  <<ch_rows, ch_size, ch_pos, ch_chunk, ch_count, ch_chunks, ch_files, ch_i,
    ch_results, ch_attempts, ch_sleeps>>
n2Vars == <<pnVars, ppVars, raVars, chVars>>
notPnVars == <<ppVars, raVars, chVars>>
notPpVars == <<pnVars, raVars, chVars>>
notRaVars == <<pnVars, ppVars, chVars>>
notChVars == <<pnVars, ppVars, raVars>>
oldExtVars == <<adVars, gmVars, bpVars, gcVars, scVars>>
notAdVars == <<gmVars, bpVars, gcVars, scVars, n2Vars>>
notGmVars == <<adVars, bpVars, gcVars, scVars, n2Vars>>
notBpVars == <<adVars, gmVars, gcVars, scVars, n2Vars>>
notGcVars == <<adVars, gmVars, bpVars, scVars, n2Vars>>
notScVars == <<adVars, gmVars, bpVars, gcVars, n2Vars>>
extVars == <<adVars, gmVars, bpVars, gcVars, scVars, n2Vars>>
vars == <<pc, csVars, fzVars, phVars, mainVars, extVars>>

CsIdle == city_raw = <<>> /\ state_raw = <<>> /\ city = <<>> /\ state = <<>>
FzIdle ==
  /\ fz_text = <<>> /\ fz_cands = <<>> /\ fz_thr = 0 /\ fz_i = 0
  /\ best_match = None /\ best_score = ZeroScore

PhIdle ==
  /\ phone_raw = <<>> /\ phone_candidates = <<>> /\ ph_i = 0
  /\ valid_phones = <<>> /\ parsed_log = <<>> /\ ph_out = <<>>

MainIdle ==
  columns = {} /\ df = <<>> /\ df_valid = <<>> /\ df_clean = <<>> /\ output = <<>>

AdIdle ==
  /\ ad_parts = <<>> /\ ad_cleaned = <<>> /\ ad_combined = <<>>
  /\ ad_out = <<>> /\ ad_again = <<>>

GmIdle ==
  /\ gm_function = "" /\ gm_response = Raises /\ gm_text = <<>>
  /\ gm_value = JSONDecodeError /\ gm_result = ReturnsNone

CoreIdle == CsIdle /\ FzIdle /\ PhIdle /\ MainIdle
BpIdle ==
  /\ bp_file = [readable |-> FALSE, rows |-> <<>>] /\ bp_size = 0 /\ bp_rows = <<>>
  /\ bp_batch = 0 /\ bp_i = 0 /\ bp_processed = <<>> /\ bp_all = <<>>
  /\ bp_output = <<>> /\ bp_return = ""

GcIdle ==
  /\ gc_function = "" /\ gc_reply = GeoRaises /\ gc_location_type = ""
  /\ gc_result = GeocodeNone

ScIdle ==
  /\ sc_script = "" /\ sc_argv = [files |-> FALSE, key |-> FALSE]
  /\ sc_env = [n \in EnvNames |-> "unset"] /\ sc_file = "" /\ sc_called = FALSE
  /\ sc_exit = ""

PnIdle ==
  /\ pn_phone = <<>> /\ pn_response = NoAnswer /\ pn_cleaned = None
  /\ pn_again = None /\ pn_result = None

PpIdle ==
  /\ pp_version = "" /\ pp_rows = <<>> /\ pp_responses = <<>> /\ pp_size = 0
  /\ pp_workers = 0 /\ pp_batch = 0 /\ pp_future = <<>> /\ pp_yielded = {}
  /\ pp_batch_results = <<>> /\ pp_all = <<>> /\ pp_output = <<>> /\ pp_return = ""

RaIdle ==
  /\ ra_script = "" /\ ra_rows = <<>> /\ ra_answers = <<>> /\ ra_file = NoFile
  /\ ra_before = NoFile /\ ra_run = 0 /\ ra_i = 0 /\ ra_processed = {}
  /\ ra_existing = <<>> /\ ra_new = <<>> /\ ra_calls = <<>> /\ ra_exit = ""

ChIdle ==
  /\ ch_rows = <<>> /\ ch_size = 0 /\ ch_pos = 0 /\ ch_chunk = <<>> /\ ch_count = 0
  /\ ch_chunks = <<>> /\ ch_files = {} /\ ch_i = 0 /\ ch_results = <<>>
  /\ ch_attempts = <<>> /\ ch_sleeps = <<>>

N2Idle == PnIdle /\ PpIdle /\ RaIdle /\ ChIdle
NotPnIdle == PpIdle /\ RaIdle /\ ChIdle
NotPpIdle == PnIdle /\ RaIdle /\ ChIdle
NotRaIdle == PnIdle /\ PpIdle /\ ChIdle
NotChIdle == PnIdle /\ PpIdle /\ RaIdle
OldExtIdle == AdIdle /\ GmIdle /\ BpIdle /\ GcIdle /\ ScIdle
NotAdIdle == GmIdle /\ BpIdle /\ GcIdle /\ ScIdle /\ N2Idle
NotGmIdle == AdIdle /\ BpIdle /\ GcIdle /\ ScIdle /\ N2Idle
NotBpIdle == AdIdle /\ GmIdle /\ GcIdle /\ ScIdle /\ N2Idle
NotGcIdle == AdIdle /\ GmIdle /\ BpIdle /\ ScIdle /\ N2Idle
NotScIdle == AdIdle /\ GmIdle /\ BpIdle /\ GcIdle /\ N2Idle
ExtIdle == AdIdle /\ GmIdle /\ BpIdle /\ GcIdle /\ ScIdle /\ N2Idle

InitCityState ==
  /\ pc = "cs_city"
  /\ city_raw \in CityInputs
  /\ state_raw \in StateInputs
  /\ city = <<>>
  /\ state = <<>>
  /\ FzIdle
  /\ PhIdle
  /\ MainIdle
  /\ ExtIdle

CsCity ==
  /\ pc = "cs_city"
  /\ city' = NormalizeCity(city_raw)
  /\ pc' = "cs_state"
  /\ UNCHANGED <<city_raw, state_raw, state, fzVars, phVars, mainVars, extVars>>

CsState ==
  /\ pc = "cs_state"
  /\ LET cs == NormalizeState(city, state_raw)
     IN  city' = cs[1] /\ state' = cs[2]
  /\ pc' = "cs_rule"
  /\ UNCHANGED <<city_raw, state_raw, fzVars, phVars, mainVars, extVars>>

CsRule ==
  /\ pc = "cs_rule"
  /\ state' = AuthorityRule(city, state)
  /\ pc' = "cs_done"
  /\ UNCHANGED <<city_raw, state_raw, city, fzVars, phVars, mainVars, extVars>>

NextCityState == CsCity \/ CsState \/ CsRule

SpecCityState == InitCityState /\ [][NextCityState]_vars

----------------------------------------------------------------------------
(* fuzzy_match, one step per iteration of its loop.                        *)

FuzzyThresholds == {DefaultThreshold, 60}
FuzzyCandidateLists == {CITIES, DEPARTMENTS}

InitFuzzy ==
  /\ pc = "fz_enter"
  /\ fz_text \in FuzzyTexts
  /\ fz_cands \in FuzzyCandidateLists
  /\ fz_thr \in FuzzyThresholds
  /\ fz_i = 0
  /\ best_match = None
  /\ best_score = ZeroScore
  /\ CsIdle
  /\ PhIdle
  /\ MainIdle
  /\ ExtIdle

\* lines 207-212
FzEnter ==
  /\ pc = "fz_enter"
  /\ pc' = IF fz_text = <<>> THEN "fz_done" ELSE "fz_loop"
  /\ UNCHANGED <<csVars, fzVars, phVars, mainVars, extVars>>

\* lines 214-219, one candidate
FzIter ==
  /\ pc = "fz_loop"
  /\ fz_i < Len(fz_cands)
  /\ LET acc == FuzzyStep(Unidecode(Strip(Lower(fz_text))), fz_cands[fz_i + 1], fz_thr,
                          <<best_match, best_score>>)
     IN  best_match' = acc[1] /\ best_score' = acc[2]
  /\ fz_i' = fz_i + 1
  /\ UNCHANGED <<pc, csVars, phVars, mainVars, extVars, fz_text, fz_cands, fz_thr>>

\* line 221
FzReturn ==
  /\ pc = "fz_loop"
  /\ fz_i = Len(fz_cands)
  /\ pc' = "fz_done"
  /\ UNCHANGED <<csVars, fzVars, phVars, mainVars, extVars>>

NextFuzzy == FzEnter \/ FzIter \/ FzReturn

SpecFuzzy == InitFuzzy /\ [][NextFuzzy]_vars

----------------------------------------------------------------------------
(* normalize_phone, one step per loop iteration.  parsed_log records the   *)
(* cleaned candidates that reached the try block.                          *)

InitPhone ==
  /\ pc = "ph_enter"
  /\ phone_raw \in PhoneInputs
  /\ phone_candidates = <<>>
  /\ ph_i = 0
  /\ valid_phones = <<>>
  /\ parsed_log = <<>>
  /\ ph_out = <<>>
  /\ CsIdle
  /\ FzIdle
  /\ MainIdle
  /\ ExtIdle

\* lines 276-282
PhEnter ==
  /\ pc = "ph_enter"
  /\ IF ~HasText(phone_raw)
       THEN pc' = "ph_done" /\ UNCHANGED phone_candidates
       ELSE pc' = "ph_strict" /\ phone_candidates' = PhoneSplit(phone_raw, 1, <<>>, <<>>)
  /\ UNCHANGED <<csVars, fzVars, mainVars, extVars, phone_raw, ph_i, valid_phones, parsed_log, ph_out>>

\* lines 283-323, one candidate
PhStrict ==
  /\ pc = "ph_strict"
  /\ ph_i < Len(phone_candidates)
  /\ valid_phones' = StrictIter(phone_candidates[ph_i + 1], valid_phones)
  /\ parsed_log' =
       LET clean_phone == CleanPhone(Strip(phone_candidates[ph_i + 1]))
       IN  IF Survives(clean_phone) THEN Append(parsed_log, clean_phone) ELSE parsed_log
  /\ ph_i' = ph_i + 1
  /\ UNCHANGED <<pc, csVars, fzVars, mainVars, extVars, phone_raw, phone_candidates, ph_out>>

\* line 326, the first loop is over
PhStrictEnd ==
  /\ pc = "ph_strict"
  /\ ph_i = Len(phone_candidates)
  /\ pc' = IF valid_phones = <<>> THEN "ph_fallback" ELSE "ph_select"
  /\ UNCHANGED <<csVars, fzVars, mainVars, extVars, phVars>>

\* lines 327-343
PhFallback ==
  /\ pc = "ph_fallback"
  /\ valid_phones' = FallbackLoop(phone_candidates, 1)
  /\ pc' = "ph_select"
  /\ UNCHANGED <<csVars, fzVars, mainVars, extVars, phone_raw, phone_candidates, ph_i, parsed_log, ph_out>>

\* lines 345-354
PhSelect ==
  /\ pc = "ph_select"
  /\ ph_out' = SelectPhone(valid_phones)
  /\ pc' = "ph_done"
  /\ UNCHANGED <<csVars, fzVars, mainVars, extVars, phone_raw, phone_candidates, ph_i, valid_phones, parsed_log>>

NextPhone == PhEnter \/ PhStrict \/ PhStrictEnd \/ PhFallback \/ PhSelect

SpecPhone == InitPhone /\ [][NextPhone]_vars

----------------------------------------------------------------------------
(* normalize_address, one step per block of the function, and a second     *)
(* call on the string the first one returned.                              *)

InitAddress ==
  /\ pc = "ad_clean"
  /\ ad_parts \in AddressInputs
  /\ ad_cleaned = <<>>
  /\ ad_combined = <<>>
  /\ ad_out = <<>>
  /\ ad_again = <<>>
  /\ CoreIdle
  /\ NotAdIdle

\* lines 106-144; the early returns of lines 107 and 147 leave ad_combined unset
AdClean ==
  /\ pc = "ad_clean"
  /\ ad_cleaned' = CleanedParts(ad_parts, 1)
  /\ pc' = IF ad_cleaned' = <<>> THEN "ad_again" ELSE "ad_join"
  /\ UNCHANGED <<ad_parts, ad_combined, ad_out, ad_again,
                 coreVars, notAdVars>>

\* line 150
AdJoin ==
  /\ pc = "ad_join"
  /\ ad_combined' = JoinParts(ad_cleaned)
  /\ pc' = "ad_rules"
  /\ UNCHANGED <<ad_parts, ad_cleaned, ad_out, ad_again,
                 coreVars, notAdVars>>

\* lines 152-198
AdRules ==
  /\ pc = "ad_rules"
  /\ ad_combined' = ApplyRules(ad_combined, SubSeq(NORMALIZE_RULES, 1, Len(NORMALIZE_RULES) - 1))
  /\ pc' = "ad_descriptor"
  /\ UNCHANGED <<ad_parts, ad_cleaned, ad_out, ad_again,
                 coreVars, notAdVars>>

\* lines 200-203
AdDescriptor ==
  /\ pc = "ad_descriptor"
  /\ ad_out' = Strip(ApplyRules(ad_combined, <<NORMALIZE_RULES[Len(NORMALIZE_RULES)]>>))
  /\ pc' = "ad_again"
  /\ UNCHANGED <<ad_parts, ad_cleaned, ad_combined, ad_again,
                 coreVars, notAdVars>>

\* normalize_address([ad_out])
AdAgain ==
  /\ pc = "ad_again"
  /\ ad_again' = normalize_address(<<ad_out>>)
  /\ pc' = "ad_done"
  /\ UNCHANGED <<ad_parts, ad_cleaned, ad_combined, ad_out,
                 coreVars, notAdVars>>

NextAddress == AdClean \/ AdJoin \/ AdRules \/ AdDescriptor \/ AdAgain

SpecAddress == InitAddress /\ [][NextAddress]_vars

----------------------------------------------------------------------------
(* main: one step per numbered stage of the pipeline.                      *)

Init ==
  /\ pc = "main_address"
  /\ columns \in Layouts
  /\ df \in LoadedFrames(columns)
  /\ df_valid = <<>>
  /\ df_clean = <<>>
  /\ output = <<>>
  /\ CsIdle
  /\ FzIdle
  /\ PhIdle
  /\ ExtIdle

\* lines 477-487
MainAddress ==
  /\ pc = "main_address"
  /\ df' = SetColumn(df, "Address", [k \in 1..Len(df) |-> AddressOfRow(columns, df[k])])
  /\ columns' = columns \cup {"Address"}
  /\ pc' = "main_city_state"
  /\ UNCHANGED <<extVars, csVars, fzVars, phVars, df_valid, df_clean, output>>

\* lines 489-503
MainCityState ==
  /\ pc = "main_city_state"
  /\ LET normalized == [k \in 1..Len(df) |-> CityStateOfRow(columns, df[k])]
     IN  df' = SetColumn(SetColumn(df, "City", [k \in 1..Len(df) |-> normalized[k][1]]),
                         "State", [k \in 1..Len(df) |-> normalized[k][2]])
  /\ columns' = columns \cup {"City", "State"}
  /\ pc' = "main_extract"
  /\ UNCHANGED <<extVars, csVars, fzVars, phVars, df_valid, df_clean, output>>

\* lines 505-514
MainExtract ==
  /\ pc = "main_extract"
  /\ LET extracted == [k \in 1..Len(df) |-> ExtractOfRow(df[k])]
     IN  df' = SetColumn(SetColumn(df, "City", [k \in 1..Len(df) |-> extracted[k][1]]),
                         "State", [k \in 1..Len(df) |-> extracted[k][2]])
  /\ pc' = "main_phone"
  /\ UNCHANGED <<extVars, csVars, fzVars, phVars, columns, df_valid, df_clean, output>>

\* lines 516-522
MainPhone ==
  /\ pc = "main_phone"
  /\ df' = SetColumn(df, "Phone", [k \in 1..Len(df) |-> PhoneOfRow(columns, df[k])])
  /\ columns' = columns \cup {"Phone"}
  /\ pc' = "main_email"
  /\ UNCHANGED <<extVars, csVars, fzVars, phVars, df_valid, df_clean, output>>

\* lines 524-530
MainEmail ==
  /\ pc = "main_email"
  /\ df' = SetColumn(df, "Email", [k \in 1..Len(df) |-> EmailOfRow(columns, df[k])])
  /\ columns' = columns \cup {"Email"}
  /\ pc' = "main_validate"
  /\ UNCHANGED <<extVars, csVars, fzVars, phVars, df_valid, df_clean, output>>

\* line 533: validate_and_dedupe(df); df_valid is the local of lines 420-421.
\* An exception of lines 411-418 is not caught: main ends with it.
MainValidate ==
  /\ pc = "main_validate"
  /\ IF StrAccessorRaises(FillNa(df))
       THEN pc' = "main_raised" /\ UNCHANGED <<df_valid, df_clean>>
       ELSE /\ df_valid' = ValidRows(FillNa(df))
            /\ df_clean' = validate_and_dedupe(df)
            /\ pc' = "main_save"
  /\ UNCHANGED <<extVars, csVars, fzVars, phVars, columns, df, output>>

\* line 548: save_df(df_clean, ...)
MainSave ==
  /\ pc = "main_save"
  /\ output' = save_df(df_clean)
  /\ pc' = "main_done"
  /\ UNCHANGED <<extVars, csVars, fzVars, phVars, columns, df, df_valid, df_clean>>

Next ==
  \/ MainAddress
  \/ MainCityState
  \/ MainExtract
  \/ MainPhone
  \/ MainEmail
  \/ MainValidate
  \/ MainSave

Spec == Init /\ [][Next]_vars

----------------------------------------------------------------------------
(* The response parsing, one step per block of the function.               *)

InitGemini ==
  /\ pc = "gm_generate"
  /\ gm_function \in GeminiFunctions
  /\ gm_response \in Responses
  /\ gm_text = <<>>
  /\ gm_value = JSONDecodeError
  /\ gm_result = ReturnsNone
  /\ CoreIdle
  /\ NotGmIdle

\* generate_content, the test of response.text and the strip; an exception
\* and an empty text return None
GmGenerate ==
  /\ pc = "gm_generate"
  /\ IF gm_response.kind # "text" \/ gm_response.text = <<>>
       THEN pc' = "gm_done" /\ UNCHANGED gm_text
       ELSE pc' = "gm_fence" /\ gm_text' = Strip(gm_response.text)
  /\ gm_result' = ReturnsNone
  /\ UNCHANGED <<gm_function, gm_response, gm_value, coreVars, notGmVars>>

\* the two fence branches
GmFence ==
  /\ pc = "gm_fence"
  /\ gm_text' = ExtractFence(gm_text)
  /\ pc' = "gm_braces"
  /\ UNCHANGED <<gm_function, gm_response, gm_value, gm_result, coreVars, notGmVars>>

\* the trim to the outermost braces
GmBraces ==
  /\ pc = "gm_braces"
  /\ gm_text' = TrimBraces(gm_text)
  /\ pc' = "gm_loads"
  /\ UNCHANGED <<gm_function, gm_response, gm_value, gm_result, coreVars, notGmVars>>

\* json.loads; JSONDecodeError ends in a handler that returns None
GmLoads ==
  /\ pc = "gm_loads"
  /\ gm_value' = json_loads(gm_text)
  /\ pc' = IF gm_value' = JSONDecodeError THEN "gm_done" ELSE "gm_validate"
  /\ UNCHANGED <<gm_function, gm_response, gm_text, gm_result, coreVars, notGmVars>>

\* the loop over required_fields and the return
GmValidate ==
  /\ pc = "gm_validate"
  /\ gm_result' = ValidateFields(gm_value, RequiredFields(gm_function))
  /\ pc' = "gm_done"
  /\ UNCHANGED <<gm_function, gm_response, gm_text, gm_value, coreVars, notGmVars>>

NextGemini == GmGenerate \/ GmFence \/ GmBraces \/ GmLoads \/ GmValidate

SpecGemini == InitGemini /\ [][NextGemini]_vars
----------------------------------------------------------------------------
(* CSVMasterProcessor.process_csv_file, one step per block, one step per    *)
(* row of process_csv_batch.                                               *)

InitBatch ==
  /\ pc = "bp_read"
  /\ bp_file \in InputFiles
  /\ bp_size \in BatchSizes
  /\ bp_rows = <<>>
  /\ bp_batch = 0
  /\ bp_i = 0
  /\ bp_processed = <<>>
  /\ bp_all = <<>>
  /\ bp_output = <<>>
  /\ bp_return = "running"
  /\ CoreIdle
  /\ NotBpIdle

\* lines 311-322: a file that cannot be opened ends in the handler of line
\* 359, a file without rows returns False
BpRead ==
  /\ pc = "bp_read"
  /\ IF ~bp_file.readable \/ bp_file.rows = <<>>
       THEN /\ bp_return' = "False"
            /\ pc' = "bp_done"
            /\ UNCHANGED bp_rows
       ELSE /\ bp_rows' = bp_file.rows
            /\ pc' = "bp_batch"
            /\ UNCHANGED bp_return
  /\ UNCHANGED <<bp_file, bp_size, bp_batch, bp_i, bp_processed, bp_all, bp_output,
                 coreVars, notBpVars>>

\* lines 327-336: the head of the loop over the batches and the call of
\* process_csv_batch (line 206)
BpBatch ==
  /\ pc = "bp_batch"
  /\ IF bp_batch < TotalBatches(Len(bp_rows), bp_size)
       THEN /\ bp_processed' = <<>>
            /\ bp_i' = 1
            /\ pc' = "bp_row"
       ELSE /\ pc' = "bp_write"
            /\ UNCHANGED <<bp_processed, bp_i>>
  /\ UNCHANGED <<bp_file, bp_size, bp_rows, bp_batch, bp_all, bp_output, bp_return,
                 coreVars, notBpVars>>

\* lines 208-301: one row of the batch, with what the two APIs answer; the
\* AttributeError of line 242 ends in the handler of lines 359-361
BpRow ==
  /\ pc = "bp_row"
  /\ bp_i <= Len(BatchRows(bp_rows, bp_batch, bp_size))
  /\ \E response \in BatchResponses, reply \in BatchReplies :
       IF RowRaises(BatchRows(bp_rows, bp_batch, bp_size)[bp_i], response)
         THEN /\ bp_return' = "False"
              /\ pc' = "bp_done"
              /\ UNCHANGED <<bp_processed, bp_i>>
         ELSE /\ bp_processed' =
                   Append(bp_processed,
                          ProcessRow(BatchRows(bp_rows, bp_batch, bp_size)[bp_i], response, reply))
              /\ bp_i' = bp_i + 1
              /\ pc' = "bp_row"
              /\ UNCHANGED bp_return
  /\ UNCHANGED <<bp_file, bp_size, bp_rows, bp_batch, bp_all, bp_output,
                 coreVars, notBpVars>>

\* lines 303 and 342: the batch returns and all_processed_rows is extended
BpBatchEnd ==
  /\ pc = "bp_row"
  /\ bp_i > Len(BatchRows(bp_rows, bp_batch, bp_size))
  /\ bp_all' = bp_all \o bp_processed
  /\ bp_batch' = bp_batch + 1
  /\ pc' = "bp_batch"
  /\ UNCHANGED <<bp_file, bp_size, bp_rows, bp_i, bp_processed, bp_output, bp_return,
                 coreVars, notBpVars>>

\* lines 349-357
BpWrite ==
  /\ pc = "bp_write"
  /\ bp_output' = bp_all
  /\ bp_return' = "True"
  /\ pc' = "bp_done"
  /\ UNCHANGED <<bp_file, bp_size, bp_rows, bp_batch, bp_i, bp_processed, bp_all,
                 coreVars, notBpVars>>

NextBatch == BpRead \/ BpBatch \/ BpRow \/ BpBatchEnd \/ BpWrite

SpecBatch == InitBatch /\ [][NextBatch]_vars
----------------------------------------------------------------------------
(* A geocoding function, one step per block.                               *)

InitGeocode ==
  /\ pc = "gc_request"
  /\ gc_function \in GeocodingFunctions
  /\ gc_reply \in GeoReplies
  /\ gc_location_type = ""
  /\ gc_result = GeocodeNone
  /\ CoreIdle
  /\ NotGcIdle

\* requests.get, raise_for_status and response.json; an exception returns None
GcRequest ==
  /\ pc = "gc_request"
  /\ pc' = IF gc_reply.kind = "json" THEN "gc_status" ELSE "gc_done"
  /\ UNCHANGED <<gc_function, gc_reply, gc_location_type, gc_result, coreVars, notGcVars>>

\* the test of the status and of the result list; the first result is taken
GcStatus ==
  /\ pc = "gc_status"
  /\ IF HasResult(gc_reply)
       THEN gc_location_type' = gc_reply.results[1] /\ pc' = "gc_confidence"
       ELSE UNCHANGED gc_location_type /\ pc' = "gc_done"
  /\ UNCHANGED <<gc_function, gc_reply, gc_result, coreVars, notGcVars>>

\* the lookup in confidence_map and the returned mapping
GcConfidence ==
  /\ pc = "gc_confidence"
  /\ gc_result' = GeocodeDict(gc_location_type, ConfidenceOf(gc_function, gc_location_type))
  /\ pc' = "gc_done"
  /\ UNCHANGED <<gc_function, gc_reply, gc_location_type, coreVars, notGcVars>>

NextGeocode == GcRequest \/ GcStatus \/ GcConfidence

SpecGeocode == InitGeocode /\ [][NextGeocode]_vars
----------------------------------------------------------------------------
(* A run of a script from the command line to its exit status.             *)

InitScripts ==
  /\ pc = "sc_args"
  /\ sc_script \in Scripts
  /\ sc_argv \in ArgvOf(sc_script)
  /\ sc_env \in Environments
  /\ sc_file \in InputKinds
  /\ sc_called = FALSE
  /\ sc_exit = ""
  /\ CoreIdle
  /\ NotScIdle

\* the usage test
ScArgs ==
  /\ pc = "sc_args"
  /\ IF ArgsOk(sc_script, sc_argv)
       THEN pc' = "sc_keys" /\ UNCHANGED sc_exit
       ELSE pc' = "sc_done" /\ sc_exit' = "1"
  /\ UNCHANGED <<sc_script, sc_argv, sc_env, sc_file, sc_called, coreVars, notScVars>>

\* the key tests and the construction of the processor
ScKeys ==
  /\ pc = "sc_keys"
  /\ IF KeysOk(sc_script, sc_argv, sc_env)
       THEN pc' = "sc_input" /\ UNCHANGED sc_exit
       ELSE pc' = "sc_done" /\ sc_exit' = "1"
  /\ UNCHANGED <<sc_script, sc_argv, sc_env, sc_file, sc_called, coreVars, notScVars>>

\* the input file is opened and read
ScInput ==
  /\ pc = "sc_input"
  /\ sc_exit' = InputExit(sc_script, sc_file)
  /\ pc' = IF sc_exit' = "" THEN "sc_rows" ELSE "sc_done"
  /\ UNCHANGED <<sc_script, sc_argv, sc_env, sc_file, sc_called, coreVars, notScVars>>

\* the rows are processed with calls of the APIs; the run ends with 0, or
\* with 1 when the processing fails (an exception, an output file that cannot
\* be written)
ScRows ==
  /\ pc = "sc_rows"
  /\ sc_script # "batch_processor.py"
  /\ sc_called' = TRUE
  /\ sc_exit' \in {"0", "1"}
  /\ pc' = "sc_done"
  /\ UNCHANGED <<sc_script, sc_argv, sc_env, sc_file, coreVars, notScVars>>

\* batch_processor.py: process_chunks runs geocoding_script.py on each chunk
\* and goes on whatever its return code; main then ends with 0
ScChunks ==
  /\ pc = "sc_rows"
  /\ sc_script = "batch_processor.py"
  /\ sc_called' = ChildKeysOk(sc_env)
  /\ sc_exit' = "0"
  /\ pc' = "sc_done"
  /\ UNCHANGED <<sc_script, sc_argv, sc_env, sc_file, coreVars, notScVars>>

NextScripts == ScArgs \/ ScKeys \/ ScInput \/ ScRows \/ ScChunks

SpecScripts == InitScripts /\ [][NextScripts]_vars
----------------------------------------------------------------------------
(* clean_paraguay_phone and the phone of process_single_row, for one row.   *)

PhoneRow(phone) == [id |-> 1, cells |-> Address1, phone |-> phone]

InitParallelPhone ==
  /\ pc = "pn_clean"
  /\ pn_phone \in ParallelPhones
  /\ pn_response \in PhoneResponses(pn_phone)
  /\ pn_cleaned = None /\ pn_again = None /\ pn_result = None
  /\ CoreIdle /\ OldExtIdle /\ NotPnIdle

\* clean_paraguay_phone(phone)
PnClean ==
  /\ pc = "pn_clean"
  /\ pn_cleaned' = clean_paraguay_phone(pn_phone)
  /\ pc' = "pn_again"
  /\ UNCHANGED <<pn_phone, pn_response, pn_again, pn_result, coreVars, oldExtVars, notPnVars>>

\* clean_paraguay_phone of the value returned
PnAgain ==
  /\ pc = "pn_again"
  /\ pn_again' = clean_paraguay_phone(pn_cleaned)
  /\ pc' = "pn_row"
  /\ UNCHANGED <<pn_phone, pn_response, pn_cleaned, pn_result, coreVars, oldExtVars, notPnVars>>

\* process_single_row of the scripts file for a row with that phone
PnRow ==
  /\ pc = "pn_row"
  /\ pn_result' = process_single_row(SCRIPTS, 0, PhoneRow(pn_phone), pn_response)
  /\ pc' = "pn_done"
  /\ UNCHANGED <<pn_phone, pn_response, pn_cleaned, pn_again, coreVars, oldExtVars, notPnVars>>

NextParallelPhone == PnClean \/ PnAgain \/ PnRow

SpecParallelPhone == InitParallelPhone /\ [][NextParallelPhone]_vars

----------------------------------------------------------------------------
(* ParallelCSVProcessor.process_csv_file: the main thread and the worker    *)
(* threads of the executor of each batch.                                   *)

InitParallel ==
  /\ pc = "pp_read"
  /\ pp_version \in ParallelVersions
  /\ \E file \in PoolInputs :
       /\ pp_rows = [k \in 1..Len(file) |->
                       [id |-> k, cells |-> file[k].cells, phone |-> file[k].phone]]
       /\ pp_responses = [k \in 1..Len(file) |-> file[k].response]
       /\ pp_future = [i \in 0..(Len(file) - 1) |-> Future("new", NoResult)]
  /\ pp_size \in PoolBatchSizes
  /\ pp_workers \in PoolWorkers
  /\ pp_batch = 0 /\ pp_yielded = {} /\ pp_batch_results = <<>> /\ pp_all = <<>>
  /\ pp_output = <<>> /\ pp_return = ""
  /\ CoreIdle /\ OldExtIdle /\ NotPpIdle

PpIndices == IndexedRows(Len(pp_rows), pp_batch, pp_size)
PpIndexSet == { PpIndices[k] : k \in 1..Len(PpIndices) }

\* the file is read; no rows: False is returned
PpRead ==
  /\ pc = "pp_read"
  /\ IF pp_rows = <<>>
       THEN pp_return' = "False" /\ pc' = "pp_done"
       ELSE pp_return' = pp_return /\ pc' = "pp_batch"
  /\ UNCHANGED <<pp_version, pp_rows, pp_responses, pp_size, pp_workers, pp_batch,
                 pp_future, pp_yielded, pp_batch_results, pp_all, pp_output,
                 coreVars, oldExtVars, notPpVars>>

\* the executor of the batch is created and every row of the batch submitted
PpSubmit ==
  /\ pc = "pp_batch"
  /\ pp_future' = [i \in DOMAIN pp_future |->
                     IF i \in PpIndexSet THEN Future("pending", NoResult) ELSE pp_future[i]]
  /\ pp_yielded' = {}
  /\ pp_batch_results' = <<>>
  /\ pc' = "pp_pool"
  /\ UNCHANGED <<pp_version, pp_rows, pp_responses, pp_size, pp_workers, pp_batch,
                 pp_all, pp_output, pp_return, coreVars, oldExtVars, notPpVars>>

\* a worker thread takes the call that was queued first
PpStart(i) ==
  /\ pc \in {"pp_pool", "pp_batch", "pp_write"}
  /\ pp_future[i].status = "pending"
  /\ \A j \in Pending(pp_future) : i <= j
  /\ CanStart(Running(pp_future), pp_workers)
  /\ pp_future' = [pp_future EXCEPT ![i] = Future("running", NoResult)]
  /\ UNCHANGED <<pc, pp_version, pp_rows, pp_responses, pp_size, pp_workers, pp_batch,
                 pp_yielded, pp_batch_results, pp_all, pp_output, pp_return,
                 coreVars, oldExtVars, notPpVars>>

\* the call of process_single_row of a worker thread ends
PpFinish(i) ==
  /\ pc \in {"pp_pool", "pp_batch", "pp_write"}
  /\ pp_future[i].status = "running"
  /\ pp_future' =
       [pp_future EXCEPT ![i] =
          Future("done", process_single_row(pp_version, i, RowOfFuture(pp_rows, i),
                                            pp_responses[i + 1]))]
  /\ UNCHANGED <<pc, pp_version, pp_rows, pp_responses, pp_size, pp_workers, pp_batch,
                 pp_yielded, pp_batch_results, pp_all, pp_output, pp_return,
                 coreVars, oldExtVars, notPpVars>>

\* as_completed yields a future of the batch that is done, and the body of
\* the loop appends its result to batch_results
PpYield(i) ==
  /\ pc = "pp_pool"
  /\ i \in PpIndexSet \ pp_yielded
  /\ pp_future[i].status = "done"
  /\ pp_yielded' = pp_yielded \cup {i}
  /\ pp_batch_results' =
       pp_batch_results \o
         Entries(i, Collected(pp_version, RowOfFuture(pp_rows, i), pp_future[i].result))
  /\ UNCHANGED <<pc, pp_version, pp_rows, pp_responses, pp_size, pp_workers, pp_batch,
                 pp_future, pp_all, pp_output, pp_return, coreVars, oldExtVars, notPpVars>>

\* the loop and the with block are left: all_processed_rows.extend
PpExtend ==
  /\ pc = "pp_pool"
  /\ BatchComplete(PpIndices, pp_yielded)
  /\ pp_all' = pp_all \o pp_batch_results
  /\ pp_batch' = pp_batch + 1
  /\ pc' = IF pp_batch + 1 < TotalBatches(Len(pp_rows), pp_size) THEN "pp_batch" ELSE "pp_write"
  /\ UNCHANGED <<pp_version, pp_rows, pp_responses, pp_size, pp_workers, pp_future,
                 pp_yielded, pp_batch_results, pp_output, pp_return,
                 coreVars, oldExtVars, notPpVars>>

\* json.dump(all_processed_rows) where the list is not empty; True is returned
PpWrite ==
  /\ pc = "pp_write"
  /\ pp_output' = [k \in 1..Len(pp_all) |-> pp_all[k].record]
  /\ pp_return' = "True"
  /\ pc' = "pp_done"
  /\ UNCHANGED <<pp_version, pp_rows, pp_responses, pp_size, pp_workers, pp_batch,
                 pp_future, pp_yielded, pp_batch_results, pp_all,
                 coreVars, oldExtVars, notPpVars>>

NextParallel ==
  \/ PpRead
  \/ PpSubmit
  \/ \E i \in DOMAIN pp_future : PpStart(i)
  \/ \E i \in DOMAIN pp_future : PpFinish(i)
  \/ \E i \in DOMAIN pp_future : PpYield(i)
  \/ PpExtend
  \/ PpWrite

SpecParallel == InitParallel /\ [][NextParallel]_vars
----------------------------------------------------------------------------
(* process_addresses, run on an input file and an output file, and run      *)
(* again on the files that the run left.                                    *)

InitResume ==
  /\ pc = "ra_start"
  /\ ra_script \in ResumeScripts
  /\ \E file \in ResumeInputs(ra_script) :
       /\ ra_rows = [k \in 1..Len(file) |-> [cells |-> file[k].cells]]
       /\ ra_answers = [k \in 1..Len(file) |-> file[k].response]
  /\ ra_file \in ResumeFiles(ra_script)
  /\ ra_before = ra_file
  /\ ra_run = 1 /\ ra_i = 0 /\ ra_processed = {} /\ ra_existing = <<>> /\ ra_new = <<>>
  /\ ra_calls = <<>> /\ ra_exit = ""
  /\ CoreIdle /\ OldExtIdle /\ NotRaIdle

\* lines 188-207 of geocoding_script.py: the files are read
RaStart ==
  /\ pc = "ra_start"
  /\ ra_before' = ra_file
  /\ ra_calls' = <<>>
  /\ ra_new' = <<>>
  /\ IF ra_rows = <<>>
       THEN /\ ra_exit' = "0" /\ pc' = "ra_done"
            /\ UNCHANGED <<ra_processed, ra_existing, ra_i>>
       ELSE /\ ra_processed' = get_processed_addresses(ra_script, ra_file)
            /\ ra_existing' = ra_file.rows
            /\ ra_i' = 1
            /\ ra_exit' = ""
            /\ pc' = "ra_loop"
  /\ UNCHANGED <<ra_script, ra_rows, ra_answers, ra_file, ra_run,
                 coreVars, oldExtVars, notRaVars>>

\* the body of the loop for row i
RaRow ==
  /\ pc = "ra_loop"
  /\ ra_i <= Len(ra_rows)
  /\ LET row == ra_rows[ra_i]
         address == CombineOf(ra_script, row)
         result == CallOf(ra_script, ra_answers[ra_i])
     IN IF address = <<>> \/ AlreadyProcessed(address, ra_processed)
          THEN /\ ra_i' = ra_i + 1
               /\ UNCHANGED <<pc, ra_new, ra_calls, ra_exit>>
        ELSE IF GetRaises(result)
          THEN /\ ra_calls' = Append(ra_calls, ra_i)
               /\ ra_exit' = "AttributeError"
               /\ pc' = "ra_done"
               /\ UNCHANGED <<ra_i, ra_new>>
        ELSE /\ ra_calls' = Append(ra_calls, ra_i)
             /\ ra_new' = Append(ra_new, ProcessedRow(ra_script, row, result))
             /\ ra_i' = ra_i + 1
             /\ UNCHANGED <<pc, ra_exit>>
  /\ UNCHANGED <<ra_script, ra_rows, ra_answers, ra_file, ra_before, ra_run,
                 ra_processed, ra_existing, coreVars, oldExtVars, notRaVars>>

\* lines 253-265: all_data is written where it is not empty
RaWrite ==
  /\ pc = "ra_loop"
  /\ ra_i > Len(ra_rows)
  /\ LET all_data == CombineData(ra_existing, ra_new)
     IN ra_file' = IF all_data # <<>> THEN FileOf(WrittenRows(all_data)) ELSE ra_file
  /\ ra_exit' = "0"
  /\ pc' = "ra_done"
  /\ UNCHANGED <<ra_script, ra_rows, ra_answers, ra_before, ra_run, ra_i, ra_processed,
                 ra_existing, ra_new, ra_calls, coreVars, oldExtVars, notRaVars>>

\* the script is started again with the same input file and output file
RaAgain ==
  /\ pc = "ra_done"
  /\ ra_run = 1
  /\ ra_exit = "0"
  /\ ra_run' = 2
  /\ pc' = "ra_start"
  /\ UNCHANGED <<ra_script, ra_rows, ra_answers, ra_file, ra_before, ra_i, ra_processed,
                 ra_existing, ra_new, ra_calls, ra_exit, coreVars, oldExtVars, notRaVars>>

NextResume == RaStart \/ RaRow \/ RaWrite \/ RaAgain

SpecResume == InitResume /\ [][NextResume]_vars
----------------------------------------------------------------------------
(* main of batch_processor.py: split_csv, then process_chunks.              *)

InitChunks ==
  /\ pc = "ch_open"
  /\ ch_rows \in ChunkInputs
  /\ ch_size \in ChunkSizes
  /\ ch_pos = 0 /\ ch_chunk = <<>> /\ ch_count = 0 /\ ch_chunks = <<>> /\ ch_files = {}
  /\ ch_i = 0 /\ ch_results = <<>> /\ ch_attempts = <<>> /\ ch_sleeps = <<>>
  /\ CoreIdle /\ OldExtIdle /\ NotChIdle

\* split_csv, lines 15-22: the header is read
ChOpen ==
  /\ pc = "ch_open"
  /\ ch_chunk' = <<HEADER>>
  /\ ch_count' = 1
  /\ ch_chunks' = <<>>
  /\ pc' = "ch_rows"
  /\ UNCHANGED <<ch_rows, ch_size, ch_pos, ch_files, ch_i, ch_results, ch_attempts,
                 ch_sleeps, coreVars, oldExtVars, notChVars>>

\* split_csv, lines 24-36: the body of the loop for the next row
ChRow ==
  /\ pc = "ch_rows"
  /\ ch_pos < Len(ch_rows)
  /\ ch_pos' = ch_pos + 1
  /\ LET chunk == Append(ch_chunk, ch_rows[ch_pos + 1])
     IN IF ChunkFull(chunk, ch_size)
          THEN /\ ch_files' = WriteFile(ch_files, ChunkFile(ch_count), chunk)
               /\ ch_chunks' = Append(ch_chunks, ChunkFile(ch_count))
               /\ ch_chunk' = <<HEADER>>
               /\ ch_count' = ch_count + 1
          ELSE /\ ch_chunk' = chunk
               /\ UNCHANGED <<ch_files, ch_chunks, ch_count>>
  /\ UNCHANGED <<pc, ch_rows, ch_size, ch_i, ch_results, ch_attempts, ch_sleeps,
                 coreVars, oldExtVars, notChVars>>

\* split_csv, lines 38-46: the final chunk; process_chunks is entered
ChFinal ==
  /\ pc = "ch_rows"
  /\ ch_pos = Len(ch_rows)
  /\ IF HasData(ch_chunk)
       THEN /\ ch_files' = WriteFile(ch_files, ChunkFile(ch_count), ch_chunk)
            /\ ch_chunks' = Append(ch_chunks, ChunkFile(ch_count))
       ELSE UNCHANGED <<ch_files, ch_chunks>>
  /\ ch_i' = 1
  /\ pc' = "ch_run"
  /\ UNCHANGED <<ch_rows, ch_size, ch_pos, ch_chunk, ch_count, ch_results, ch_attempts,
                 ch_sleeps, coreVars, oldExtVars, notChVars>>

\* process_chunks, lines 52-73: the subprocess is run for chunk i
ChRun ==
  /\ pc = "ch_run"
  /\ ch_i <= Len(ch_chunks)
  /\ \E outcome \in Outcomes :
       /\ ch_attempts' = Append(ch_attempts, Attempt(ch_chunks[ch_i], outcome))
       /\ ch_files' = IF outcome = "0"
                        THEN WriteFile(ch_files, ResultFile(ch_i), <<HEADER, ch_chunks[ch_i]>>)
                        ELSE ch_files
       /\ ch_results' = IF outcome # "raises" /\ Succeeded(outcome)
                          THEN Append(ch_results, ResultFile(ch_i))
                          ELSE ch_results
  /\ pc' = "ch_cleanup"
  /\ UNCHANGED <<ch_rows, ch_size, ch_pos, ch_chunk, ch_count, ch_chunks, ch_i, ch_sleeps,
                 coreVars, oldExtVars, notChVars>>

\* process_chunks, lines 75-81: the chunk file is removed, the delay waited
ChCleanup ==
  /\ pc = "ch_cleanup"
  /\ ch_files' = RemoveFile(ch_files, ch_chunks[ch_i])
  /\ ch_sleeps' = IF WaitsAfter(ch_i, ch_chunks) THEN Append(ch_sleeps, ch_i) ELSE ch_sleeps
  /\ ch_i' = ch_i + 1
  /\ pc' = "ch_run"
  /\ UNCHANGED <<ch_rows, ch_size, ch_pos, ch_chunk, ch_count, ch_chunks, ch_results,
                 ch_attempts, coreVars, oldExtVars, notChVars>>

\* process_chunks, line 83: all_results is returned
ChReturn ==
  /\ pc = "ch_run"
  /\ ch_i > Len(ch_chunks)
  /\ pc' = "ch_done"
  /\ UNCHANGED <<chVars, coreVars, oldExtVars, notChVars>>

NextChunks == ChOpen \/ ChRow \/ ChFinal \/ ChRun \/ ChCleanup \/ ChReturn

SpecChunks == InitChunks /\ [][NextChunks]_vars
----------------------------------------------------------------------------
(* Properties                                                              *)

S_Lambare == <<"L","a","m","b","a","r","e^">>
S_Central == <<"C","e","n","t","r","a","l">>
S_itapua == <<"i","t","a","p","u","a">>
S_Luque == <<"L","u","q","u","e">>
S_lueby == <<"l","u","e","b","y">>

\* C1: whenever normalize_city_state returns a city that is a key of
\* CITY_TO_DEPARTMENT, the returned state is the department mapped to that city,
\* whatever state_raw was.
C1_AuthorityRule ==
  pc = "cs_done" =>
    \A i \in 1..Len(CITY_TO_DEPARTMENT) :
      city = CITY_TO_DEPARTMENT[i][1] => state = CITY_TO_DEPARTMENT[i][2]

\* C1 witness: city 'lambare' with the unrelated state 'itapua' has returned
\* ('Lambare^', 'Central').
C1_Witness ==
  /\ pc = "cs_done"
  /\ Unidecode(Strip(Lower(city_raw))) = Unidecode(Lower(S_Lambare))
  /\ state_raw = S_itapua
  /\ city = S_Lambare
  /\ state = S_Central

\* C2: in every record main writes, a City that is a key of CITY_TO_DEPARTMENT
\* comes with the State mapped to it.
C2_OutputAuthority ==
  \A k \in 1..Len(output) :
    InDict(CITY_TO_DEPARTMENT, output[k][2]) =>
      output[k][3] = DictGet(CITY_TO_DEPARTMENT, output[k][2])

\* a cell that is neither missing nor the empty string
NonEmpty(x) == x # NaN /\ x # <<>>

\* the validity rule as stated, on a row that holds the five fields
IsValidRecord(row) ==
  /\ \/ NonEmpty(row.data["Address"])
     \/ NonEmpty(row.data["City"]) /\ NonEmpty(row.data["State"])
  /\ \/ NonEmpty(row.data["Phone"])
     \/ NonEmpty(row.data["Email"])

AllFieldsEmpty(row) == \A j \in 1..Len(OUTPUT_COLS) : ~NonEmpty(row.data[OUTPUT_COLS[j]])

\* C3: validate_and_dedupe keeps a row in df_valid exactly when it has an address
\* or both city and state, and has a phone or an e-mail, a missing value counting
\* as empty; a row whose five fields are all empty is never in the output.
C3_ValidityFilter ==
  pc \in {"main_save", "main_done"} =>
    /\ \A k \in 1..Len(df) :
         (\E j \in 1..Len(df_valid) : df_valid[j].index = df[k].index)
           <=> IsValidRecord(df[k])
    /\ \A j \in 1..Len(df_clean) : ~AllFieldsEmpty(df_clean[j])
    /\ \A j \in 1..Len(output) : \E c \in 1..Len(OUTPUT_COLS) : output[j][c] # <<>>

\* C3 witness: of three rows one with five empty fields and one with an address
\* but no contact were dropped, and one was kept.
C3_Witness ==
  /\ pc = "main_done"
  /\ Len(df) = 3
  /\ Len(df_valid) = 1
  /\ \E k \in 1..3 : AllFieldsEmpty(df[k])
  /\ \E k \in 1..3 :
       /\ NonEmpty(df[k].data["Address"])
       /\ ~NonEmpty(df[k].data["Phone"])
       /\ ~NonEmpty(df[k].data["Email"])

\* the five fields of a row, a missing value written as the empty string
C4_Key(row) ==
  [j \in 1..Len(OUTPUT_COLS) |->
     IF row.data[OUTPUT_COLS[j]] = NaN THEN <<>> ELSE row.data[OUTPUT_COLS[j]]]

\* C4: no two rows of the result agree on the five fields; of the valid rows
\* that agree on them exactly the first is kept; the kept rows are in input
\* order and hold the field values of their input rows.
C4_Dedupe ==
  pc \in {"main_save", "main_done"} =>
    /\ \A i, j \in 1..Len(df_clean) : i # j => C4_Key(df_clean[i]) # C4_Key(df_clean[j])
    /\ \A k \in 1..Len(df_valid) :
         (\E j \in 1..Len(df_clean) : df_clean[j] = df_valid[k])
           <=> (\A i \in 1..(k - 1) : C4_Key(df_valid[i]) # C4_Key(df_valid[k]))
    /\ \A i, j \in 1..Len(df_clean) : i < j => df_clean[i].index < df_clean[j].index
    /\ \A j \in 1..Len(df_clean) :
         \E k \in 1..Len(df) :
           df[k].index = df_clean[j].index /\ C4_Key(df[k]) = C4_Key(df_clean[j])

\* C4 witness: of three valid rows the third repeats the first; the first and
\* the second were kept, in that order.
C4_Witness ==
  /\ pc = "main_done"
  /\ Len(df_valid) = 3
  /\ C4_Key(df_valid[3]) = C4_Key(df_valid[1])
  /\ C4_Key(df_valid[2]) # C4_Key(df_valid[1])
  /\ df_clean = <<df_valid[1], df_valid[2]>>
  /\ Len(output) = 2

\* two scores are equal
ScoreEq(s, t) == s[1] * t[2] = t[1] * s[2]

\* the score of candidate j for the text of the running fuzzy_match call
C10_Score(j) == Ratio(Unidecode(Strip(Lower(fz_text))), Unidecode(Lower(fz_cands[j])))

\* C10: fuzzy_match returns the earliest candidate of maximal score when that
\* score is at least the threshold, and None otherwise.
C10_FuzzyBest ==
  pc = "fz_done" =>
    LET n    == Len(fz_cands)
        tops == {j \in 1..n : /\ ScoreGeqInt(C10_Score(j), fz_thr)
                              /\ \A k \in 1..n : ~ScoreGt(C10_Score(k), C10_Score(j))}
    IN  IF tops = {} THEN best_match = None
        ELSE best_match = fz_cands[CHOOSE j \in tops : \A k \in tops : j <= k]

\* C10 witness: two candidates share the maximal score, which reaches the
\* threshold, and the earlier one has been returned.
C10_Witness ==
  /\ pc = "fz_done"
  /\ best_match # None
  /\ \E j, k \in 1..Len(fz_cands) :
       /\ j < k
       /\ fz_cands[j] = best_match
       /\ ScoreEq(C10_Score(j), C10_Score(k))
       /\ ScoreGeqInt(C10_Score(j), fz_thr)

DigitsOf(s) == SelectSeq(s, LAMBDA ch : ch \in Digits)

\* the raw string writes one number: digits with spaces, hyphens or brackets
HoldsSingleNumber(raw) ==
  /\ raw # NaN
  /\ \A i \in 1..Len(raw) : raw[i] \in Digits \cup {" ", "-", "(", ")"}

\* C5: an input holding a single valid 9-digit local number returns "+595" and
\* the 9 digits; an input holding a single 10-digit number with a leading 0
\* returns "+595" and the 9 digits after the 0.
C5_PhoneCanonical ==
  (pc = "ph_done" /\ HoldsSingleNumber(phone_raw)) =>
    LET d == DigitsOf(phone_raw)
    IN  /\ (Len(d) = 9 /\ LibIsValid(Parsed(d))) => ph_out = PLUS_CC_PY \o d
        /\ (Len(d) = 10 /\ d[1] = "0") => ph_out = PLUS_CC_PY \o Tail(d)

\* the cleaned candidates of the raw string that are not skipped, in input order
SurvivingCandidates(raw) ==
  SelectSeq([i \in 1..Len(PhoneSplit(raw, 1, <<>>, <<>>)) |->
               CleanPhone(Strip(PhoneSplit(raw, 1, <<>>, <<>>)[i]))],
            Survives)

\* strict parsing and validation accept the cleaned candidate
StrictAccepts(clean_phone) ==
  LET parsed == LibParse(ParseArgument(clean_phone), ParseRegion(clean_phone))
  IN  parsed.ok /\ LibIsValid(parsed)

IsPermissive(clean_phone) == IsDigitStr(clean_phone) /\ Len(clean_phone) \in {9, 10}

\* C6: when strict parsing and validation accept no candidate, an input with a
\* surviving all-digit candidate of 9 or 10 digits returns "+595" and the digits
\* of the first such candidate.
C6_PermissiveFallback ==
  (pc = "ph_done" /\ HasText(phone_raw)) =>
    LET surv == SurvivingCandidates(phone_raw)
        perm == SelectSeq(surv, IsPermissive)
    IN  ((\A i \in 1..Len(surv) : ~StrictAccepts(surv[i])) /\ perm # <<>>) =>
          ph_out = PLUS_CC_PY \o perm[1]

\* C7: the result is the first validated string that begins with "+5959" when
\* there is one, else the first validated string, else the empty string.
C7_Selection ==
  pc = "ph_done" =>
    LET mobiles == {i \in 1..Len(valid_phones) : StartsWith(valid_phones[i], MOBILE_MARK)}
    IN  ph_out = IF valid_phones = <<>> THEN <<>>
                 ELSE IF mobiles # {}
                   THEN valid_phones[CHOOSE i \in mobiles : \A k \in mobiles : i <= k]
                 ELSE valid_phones[1]

\* C7 witness: a mobile number was returned although a validated landline number
\* comes first.
C7_Witness ==
  /\ pc = "ph_done"
  /\ Len(valid_phones) >= 2
  /\ ~StartsWith(valid_phones[1], MOBILE_MARK)
  /\ StartsWith(ph_out, MOBILE_MARK)

\* the pieces of the raw string between separators
C8_Pieces(raw) ==
  {SubSeq(raw, i, j) : <<i, j>> \in
     {ij \in (1..Len(raw)) \X (1..Len(raw)) :
        /\ ij[1] <= ij[2]
        /\ \A k \in ij[1]..ij[2] : raw[k] \notin {"/", ",", " ", "\t"}
        /\ ij[1] = 1 \/ raw[ij[1] - 1] \in {"/", ",", " ", "\t"}
        /\ ij[2] = Len(raw) \/ raw[ij[2] + 1] \in {"/", ",", " ", "\t"}}}

\* C8: the output for a string of several numbers is the output of one of its
\* pieces alone (never the digits of two pieces joined), and a number written
\* twice gives what the number gives alone.
C8_SingleCandidate ==
  (pc = "ph_done" /\ HasText(phone_raw)) =>
    /\ ph_out = <<>> \/ \E c \in C8_Pieces(phone_raw) : ph_out = normalize_phone(c)
    /\ \A c \in C8_Pieces(phone_raw) :
         phone_raw = c \o <<"/">> \o c => ph_out = normalize_phone(c)

\* C8 witness: '7739778244/7739778244' has returned the number once.
C8_Witness ==
  /\ pc = "ph_done"
  /\ Len(phone_candidates) = 2
  /\ phone_raw = phone_candidates[1] \o <<"/">> \o phone_candidates[1]
  /\ ph_out = PLUS_CC_PY \o phone_candidates[1]

\* C9: after the first loop, a candidate was kept from parsing exactly when its
\* cleaned form has fewer than 6 digits, only zeros, or more than 15 digits.
C9_DiscardRule ==
  pc \in {"ph_fallback", "ph_select", "ph_done"} =>
    \A i \in 1..Len(phone_candidates) :
      LET clean_phone == CleanPhone(Strip(phone_candidates[i]))
          d == DigitsOf(clean_phone)
      IN  (Len(d) < 6 \/ AllZeros(d) \/ Len(d) > 15)
            <=> ~(\E k \in 1..Len(parsed_log) : parsed_log[k] = clean_phone)

S_guaira == <<"g","u","a","i","r","a">>
S_lambare == <<"l","a","m","b","a","r","e">>
S_Villarrica == <<"V","i","l","l","a","r","r","i","c","a">>

\* the city the precedence dictionary, fuzzy match, title case gives for c_raw
C11_Resolved(c_raw) ==
  LET key == Strip(Unidecode(Lower(c_raw)))
      fuzzy == fuzzy_match(c_raw, CITIES, DefaultThreshold)
  IN  IF \E i \in 1..Len(CITY_DICT) : CITY_DICT[i][1] = key
        THEN (CHOOSE v \in {CITY_DICT[i][2] : i \in 1..Len(CITY_DICT)} :
                \E i \in 1..Len(CITY_DICT) : CITY_DICT[i] = <<key, v>>)
      ELSE IF fuzzy # None THEN fuzzy
      ELSE Title(Strip(c_raw))

\* C11: for a city_raw that holds a character other than white space, the city
\* normalize_city_state returns is the CITY_DICT value of the folded input when
\* that is a key, else the fuzzy match against CITIES when there is one, else the
\* trimmed input in title case; the state block never replaces that city.
C11_CityPrecedence ==
  (pc \in {"cs_state", "cs_rule", "cs_done"} /\ city_raw # NaN /\ Strip(city_raw) # <<>>)
    => city = C11_Resolved(city_raw)

\* C11 as stated, for every city_raw that is not the empty string: a city_raw of
\* white space only counts as given, resolves to the empty string and is to stay
\* so whatever state_raw holds.
C11_NonEmptyCity ==
  (pc \in {"cs_state", "cs_rule", "cs_done"} /\ city_raw # NaN /\ city_raw # <<>>)
    => city = C11_Resolved(city_raw)

\* C11 witness: 'guaira' is a key of CITY_DICT, 'Villarrica' was returned beside
\* a state_raw that names the city 'Lambare^'.
C11_Witness ==
  /\ pc = "cs_done"
  /\ city_raw = S_guaira
  /\ state_raw = S_lambare
  /\ city = S_Villarrica

S_caacupe == <<"c","a","a","c","u","p","e">>
S_Asuncion == <<"A","s","u","n","c","i","o^","n">>

\* state_raw is neither a key of STATE_DICT nor a fuzzy match of a department
C12_NoDepartment ==
  \/ ~HasText(state_raw)
  \/ /\ \A i \in 1..Len(STATE_DICT) : STATE_DICT[i][1] # Unidecode(Strip(Lower(state_raw)))
     /\ fuzzy_match(state_raw, DEPARTMENTS, DefaultThreshold) = None

\* the city that state_raw names, None when it names none
C12_CityOfState ==
  IF HasText(state_raw) THEN fuzzy_match(state_raw, CITIES, DefaultThreshold) ELSE None

\* state_raw names a city and no department, and city_raw gave no city
C12_Adopts ==
  C12_NoDepartment /\ C12_CityOfState # None /\ NormalizeCity(city_raw) = <<>>

\* the state of every other case without a department: state_raw trimmed, in
\* title case
C12_TitleFallback ==
  (pc = "cs_rule" /\ C12_NoDepartment /\ ~C12_Adopts)
    => state = (IF state_raw = NaN THEN <<>> ELSE Title(Strip(state_raw)))

\* C12: when state_raw names no department but fuzzy-matches a city and city_raw
\* gave no city, the returned city is that city and the returned state is its
\* department in CITY_TO_DEPARTMENT when it has one, 'Asuncion' for the city
\* 'Asuncion', and the empty string for any other city; in every other case
\* without a department the state before the authority rule is state_raw trimmed
\* and in title case.
C12_CityFromState ==
  /\ (pc = "cs_done" /\ C12_Adopts) =>
       /\ city = C12_CityOfState
       /\ state = (IF InDict(CITY_TO_DEPARTMENT, city) THEN DictGet(CITY_TO_DEPARTMENT, city)
                   ELSE IF city = S_Asuncion THEN S_Asuncion
                   ELSE <<>>)
  /\ C12_TitleFallback

\* C12 as stated: the adopted city always has a department in CITY_TO_DEPARTMENT,
\* and that department is the returned state.
C12_DepartmentAlways ==
  /\ (pc = "cs_done" /\ C12_Adopts) =>
       /\ city = C12_CityOfState
       /\ \E i \in 1..Len(CITY_TO_DEPARTMENT) :
            CITY_TO_DEPARTMENT[i] = <<city, state>>
  /\ C12_TitleFallback

\* C12 witness: no city_raw and state_raw 'lambare' have returned
\* ('Lambare^', 'Central').
C12_Witness ==
  /\ pc = "cs_done"
  /\ city_raw = NaN
  /\ state_raw = S_lambare
  /\ city = S_Lambare
  /\ state = S_Central

\* C13: normalize_address applied to the one-fragment list of its own result
\* returns that result again.
C13_Idempotent == pc = "ad_done" => ad_again = ad_out

\* the fragments of the inputs that are missing, blank, a placeholder or noise
\* only
C14_Dropped ==
  { NaN, <<>>, <<" ">>, <<"N","/","A">>, <<"0","0","0">>,
    <<"a","@","b",".","c","o">>,
    <<"C","o","r","r","e","o"," ","P","a","r","a","g","u","a","y","o">>,
    <<"a","@","b",".","c","o"," ",","," ",","," ",","," ","C","P","-","1","2">> }

\* the fragments of ad_parts that are not in C14_Dropped, in order
C14_Kept == SelectSeq(ad_parts, LAMBDA p : p \notin C14_Dropped)

\* the fragments that cleaning leaves non-empty, in input order
C14_Survivors ==
  SelectSeq([i \in 1..Len(ad_parts) |-> CleanPart(ad_parts[i])], LAMBDA p : p # <<>>)

\* the strings of ps with ", " between them
C14_Joined(ps) ==
  LET f[k \in 0..Len(ps)] ==
        IF k = 0 THEN <<>>
        ELSE IF k = 1 THEN ps[1]
        ELSE f[k - 1] \o <<",", " ">> \o ps[k]
  IN  f[Len(ps)]

\* s has a comma with nothing but white space before it, after it, or between it
\* and the next comma
C14_EmptySegment(s) ==
  \E i \in 1..Len(s) :
    /\ s[i] = ","
    /\ \/ Strip(SubSeq(s, 1, i - 1)) = <<>>
       \/ Strip(SubSeq(s, i + 1, Len(s))) = <<>>
       \/ \E j \in (i + 1)..Len(s) : s[j] = "," /\ Strip(SubSeq(s, i + 1, j - 1)) = <<>>

C15_DescriptorSuffix ==
  pc \in {"ad_again", "ad_done"} /\ ad_cleaned # <<>> =>
    \/ ad_out = Strip(ad_combined)
    \/ \E k \in 1..Len(DESCRIPTORS) :
         LET c == RStrip(ad_combined)
             n == Len(c) - Len(DESCRIPTORS[k])
             before == RStrip(SubSeq(c, 1, n))
         IN  /\ n >= 0
             /\ LitAt(c, n + 1, DESCRIPTORS[k])
             /\ (n = 0 \/ c[n] \notin WordChars)
             /\ ad_out = Strip(IF before # <<>> /\ before[Len(before)] = ","
                                 THEN SubSeq(before, 1, Len(before) - 1)
                                 ELSE before)

\* C16: the normalization functions return a value on every input: no run of main
\* ends with an exception that one of them raised.
C16_NoException == pc # "main_raised"

C17_Required == { RequiredFields(gm_function)[k] : k \in 1..Len(RequiredFields(gm_function)) }

\* C17: whatever generate_content answers, a response-parsing function returns
\* None or a mapping that holds every required key, the keys the response
\* lacked with the value None.
C17_NoneOrMapping ==
  pc = "gm_done" =>
    \/ gm_result = ReturnsNone
    \/ /\ gm_result.kind = "dict"
       /\ \A f \in C17_Required : <<f>> \in gm_result.keys
       /\ gm_result.added = { f \in C17_Required : <<f>> \notin gm_value.keys }

\* the part of C17 that the code keeps: a response whose text is a JSON object
\* comes back as a mapping with every required key
C17_ObjectComplete ==
  pc = "gm_done" /\ gm_value.kind = "dict" =>
    /\ gm_result.kind = "dict"
    /\ \A f \in C17_Required : <<f>> \in gm_result.keys
    /\ gm_result.added = { f \in C17_Required : <<f>> \notin gm_value.keys }

\* the geocoding fields of an output row are empty or zero
C18_NoGeocoding(r) ==
  /\ r.google_latitude = <<>> /\ r.google_longitude = <<>>
  /\ r.google_formatted_address = <<>> /\ r.google_maps_link = <<>>
  /\ r.google_confidence = ZERO

\* the language-model fields of an output row are empty or zero
C18_NoProcessing(r) ==
  /\ r.processed_state = <<>> /\ r.processed_city = <<>> /\ r.processed_street = <<>>
  /\ r.processed_country = <<>> /\ r.processing_confidence = ZERO

\* one output row for each input row, in the order of the input, and the rows
\* without enrichment carry empty or zero fields
C18_RowForRow ==
  /\ Len(bp_output) = Len(bp_file.rows)
  /\ \A k \in 1..Len(bp_output) :
       /\ bp_output[k].id = bp_file.rows[k].id
       /\ bp_output[k].original_address = combine_address_fields(bp_file.rows[k])
       /\ bp_output[k].improvements_made \in {<<"Failed to process">>, <<"No address found">>}
            => C18_NoProcessing(bp_output[k]) /\ C18_NoGeocoding(bp_output[k])
       /\ bp_output[k].google_latitude = <<>> => C18_NoGeocoding(bp_output[k])

\* C18: whatever the language model and the geocoder answer for each row,
\* process_csv_file runs through every row of every batch and writes one output
\* row for each input row, in input order, a row whose enrichment failed with
\* empty or zero enrichment fields.
C18_ContinuesThroughFailures ==
  pc = "bp_done" /\ bp_file.readable /\ bp_file.rows # <<>> =>
    bp_return = "True" /\ C18_RowForRow

\* the part of C18 that the code keeps: a run that returns True has written
\* one row for each input row, in input order
C18_CompletedRuns == pc = "bp_done" /\ bp_return = "True" => C18_RowForRow

\* the table of the specification
C19_Table(location_type) ==
  CASE location_type = "ROOFTOP" -> Float("1", "0")
    [] location_type = "RANGE_INTERPOLATED" -> Float("0", "8")
    [] location_type = "GEOMETRIC_CENTER" -> Float("0", "6")
    [] location_type = "APPROXIMATE" -> Float("0", "4")
    [] OTHER -> Float("0", "5")

\* C19: a geocoding function that returns a result gives it the confidence that
\* the table assigns to the location type of the first result (1.0, 0.8, 0.6,
\* 0.4, and 0.5 for any other code), and the three implementations assign the
\* same confidence to that code.
C19_ConfidenceTable ==
  pc = "gc_done" /\ gc_result.kind = "dict" =>
    /\ gc_result.location_type = gc_reply.results[1]
    /\ gc_result.confidence_score = C19_Table(gc_reply.results[1])
    /\ \A f \in GeocodingFunctions :
         ConfidenceOf(f, gc_reply.results[1]) = gc_result.confidence_score

C19_Witness ==
  /\ pc = "gc_done"
  /\ gc_function = "CSVMasterProcessor.geocode_with_google_maps"
  /\ gc_reply = GeoReply("OK", <<"PLACE", "ROOFTOP">>)
  /\ gc_result.kind = "dict"
  /\ gc_result.confidence_score = Float("0", "5")

\* the credential that the script needs is neither on the command line nor
\* in the environment
C20_CredentialAbsent ==
  CASE sc_script = "csv_master_processor.py" ->
         \/ ~EnvHas(sc_env, "GEMINI_API_KEY")
         \/ ~EnvHas(sc_env, "GOOGLE_MAPS_API_KEY") /\ ~EnvHas(sc_env, "VITE_GOOGLE_MAPS_API_KEY")
    [] sc_script = "geocoding_script.py" -> ~sc_argv.key /\ ~EnvHas(sc_env, "GEMINI_API_KEY")
    [] OTHER -> ~EnvHas(sc_env, "GEMINI_API_KEY")

C20_ExitsNonZero ==
  /\ C20_CredentialAbsent => sc_exit # "0" /\ ~sc_called
  /\ sc_file \in {"missing", "unreadable"} => sc_exit # "0"

\* C20: a script that needs an API key ends with a non-zero exit status and
\* without a call of an external API when the key is neither on the command
\* line nor in the environment, and with a non-zero exit status when its input
\* file is missing or cannot be read.
C20_ExitOnMissing == pc = "sc_done" => C20_ExitsNonZero

\* the part of C20 that the code keeps: the scripts that read the key
\* themselves
C20_KeyReadingScripts ==
  pc = "sc_done" /\ sc_script # "batch_processor.py" => C20_ExitsNonZero

----------------------------------------------------------------------------
(* Claims about ParallelCSVProcessor.                                       *)

\* what the body of the as_completed loop appends for the row of a 0-based
\* index, from the row and the answer of the language model for it
RecordsOfRow(i) ==
  Collected(pp_version, pp_rows[i + 1],
            process_single_row(pp_version, i, pp_rows[i + 1], pp_responses[i + 1]))

\* the records of every row, in the order of the rows of the input
RecordsInInputOrder ==
  Concat([k \in 1..Len(pp_rows) |-> RecordsOfRow(k - 1)], 1, Len(pp_rows))

\* C21: the records written by process_csv_file appear in the order of the
\* input rows, for every order in which the worker threads complete.
C21_InputOrder == pp_return = "True" => pp_output = RecordsInInputOrder

\* the part of C21 that the code keeps: the records of a batch of one row,
\* and so of a run with batch_size 1, are in the order of the input
C21_SingleRowBatches ==
  pp_return = "True" /\ pp_size = 1 => pp_output = RecordsInInputOrder

\* C22: at every moment at most max_workers rows are being processed, and the
\* rows being processed at the same moment belong to the same batch (the batch
\* whose executor is open).
C22_BoundedPool ==
  /\ Cardinality(Running(pp_future)) <= pp_workers
  /\ \A i \in Running(pp_future) : pc = "pp_pool" /\ BatchOf(i, pp_size) = pp_batch

\* two calls run, a third one of the same batch waits in the queue
C22_Witness ==
  /\ pc = "pp_pool"
  /\ pp_workers = 2
  /\ Cardinality(Running(pp_future)) = 2
  /\ Pending(pp_future) # {}

\* a row has started processing
C27_Started(i) == pp_future[i].status \in {"running", "done"}

\* C27: no row of a batch starts processing before every row of the batches
\* before it has finished, and in all_processed_rows and in the output every
\* record of a batch precedes every record of the batches after it.
C27_Barrier ==
  /\ \A i, j \in DOMAIN pp_future :
       C27_Started(i) /\ BatchOf(j, pp_size) < BatchOf(i, pp_size)
         => /\ pp_future[j].status = "done"
            /\ \/ \E k \in 1..Len(pp_all) : pp_all[k].row = j
               \/ pp_future[j].result.kind = "None"
  /\ \A k, l \in 1..Len(pp_all) :
       k < l => BatchOf(pp_all[k].row, pp_size) <= BatchOf(pp_all[l].row, pp_size)
  /\ \A k \in 1..Len(pp_all) : BatchOf(pp_all[k].row, pp_size) < pp_batch
  /\ pp_output # <<>> => pp_output = [k \in 1..Len(pp_all) |-> pp_all[k].record]

\* the row of the second batch runs after the first batch was collected out
\* of input order
C27_Witness ==
  /\ pc = "pp_pool"
  /\ pp_batch = 1
  /\ pp_size = 2
  /\ Running(pp_future) = {2}
  /\ Len(pp_all) = 2
  /\ pp_all[1].row = 1

\* C28: process_csv_file of csv_parallel_processor.py on a file with rows
\* writes exactly one record for each input row: as many records as rows, and
\* each row accounts for exactly one of them, whatever rows had no address,
\* failed in the language model or raised inside a worker.
C28_OneRecordPerRow ==
  pc = "pp_done" /\ pp_version # SCRIPTS /\ pp_rows # <<>> =>
    /\ pp_return = "True"
    /\ Len(pp_output) = Len(pp_rows)
    /\ \A i \in DOMAIN pp_future :
         Cardinality({ k \in 1..Len(pp_all) : pp_all[k].row = i }) = 1

\* a run over a row without address, a row whose call failed and a row whose
\* worker raised
C28_Witness ==
  /\ pc = "pp_done"
  /\ pp_version # SCRIPTS
  /\ Len(pp_output) = 3
  /\ \E a, b, c \in 1..3 :
       /\ pp_output[a] = EmptyAddressRecord
       /\ pp_output[b] = ErrorRecord(pp_version, pp_rows[pp_all[b].row + 1])
       /\ pp_output[c] = FailedRecord(pp_version, pp_all[c].row,
                                      combine_address_fields(pp_rows[pp_all[c].row + 1]),
                                      pp_rows[pp_all[c].row + 1].phone)
       /\ pp_responses[pp_all[c].row + 1] = NoAnswer
       /\ combine_address_fields(pp_rows[pp_all[c].row + 1]) # <<>>

\* the number of places of a sequence that hold a record
C30_Count(records, r) == Cardinality({ k \in 1..Len(records) : records[k] = r })

\* C30: in a run that has ended, the result of the call for each row, and the
\* record collected from it, is the one that its own row and the answer for
\* that row determine, and every interleaving of the workers writes the same
\* collection of records (the same records, each as often), which can differ
\* between schedules only in their order.
C30_RowLocal ==
  pp_return = "True" =>
    /\ \A i \in DOMAIN pp_future :
         /\ pp_future[i].status = "done"
         /\ pp_future[i].result =
              process_single_row(pp_version, i, pp_rows[i + 1], pp_responses[i + 1])
    /\ \A k \in 1..Len(pp_all) : <<pp_all[k].record>> = RecordsOfRow(pp_all[k].row)
    /\ Len(pp_output) = Len(RecordsInInputOrder)
    /\ \A k \in 1..Len(pp_output) :
         C30_Count(pp_output, pp_output[k]) = C30_Count(RecordsInInputOrder, pp_output[k])

\* a schedule that wrote three different records out of input order
C30_Witness ==
  /\ pp_return = "True"
  /\ pp_version # SCRIPTS
  /\ Len(pp_output) = 3
  /\ pp_output # RecordsInInputOrder
  /\ \A k, l \in 1..3 : k # l => pp_output[k] # pp_output[l]

\* C26: every value that clean_paraguay_phone returns is empty or '+595'
\* followed by exactly 9 digits (13 characters).
C26_CanonicalOrEmpty ==
  pn_cleaned # None => pn_cleaned = <<>> \/ IsCanonicalPhone(pn_cleaned)

\* the part of C26 that the code keeps: a value that is not empty starts with
\* '+595' and is 13 or 14 characters long
C26_CountryCode ==
  pn_cleaned \notin {None, <<>>} =>
    StartsWith(pn_cleaned, PLUS_CC_PY) /\ Len(pn_cleaned) \in {13, 14}

\* the language model returned the phone of the row, returned no phone, or
\* failed
C29_NoNewPhone ==
  \/ pn_response.kind = "raises"
  \/ pn_response.phone \in {None, <<>>, pn_phone}

\* C29: the record of a row whose phone is '+595' followed by 9 digits keeps
\* that phone when the language model returns the same phone, no phone, or
\* fails; clean_paraguay_phone returns such a number unchanged.
C29_CanonicalKept ==
  pc = "pn_done" /\ IsCanonicalPhone(pn_phone) /\ C29_NoNewPhone /\ pn_result.kind = "dict" =>
    /\ pn_result.record.phone = pn_phone
    /\ pn_cleaned = pn_phone

\* the part of C29 that the code keeps: where the language model returns
\* another phone, the record holds the phone of the language model, and in
\* every other case the value of clean_paraguay_phone
C29_FallbackOnly ==
  pc = "pn_done" /\ pn_result.kind = "dict" =>
    pn_result.record.phone = (IF C29_NoNewPhone THEN pn_cleaned ELSE pn_response.phone)

----------------------------------------------------------------------------
(* Claims about process_addresses, split_csv and process_chunks.            *)

\* the combined address of input row i is the one of a row of the output
\* file that the run started with
C23_InOutput(i) ==
  \E k \in 1..Len(ra_before.rows) :
    CombineOf(ra_script, ra_before.rows[k]) = CombineOf(ra_script, ra_rows[i])

\* the rows that the run adds: one for each call, in the order of the input
C23_NewRows ==
  WrittenRows([k \in 1..Len(ra_calls) |->
     ProcessedRow(ra_script, ra_rows[ra_calls[k]],
                  CallOf(ra_script, ra_answers[ra_calls[k]]))])

\* C23: process_addresses calls the API for no row whose combined address is
\* the one of a row of the output file, and adds no output row for it; a run
\* that ends leaves the rows that the file held, unchanged and in their
\* order, followed by the newly processed rows in input order; a second run on
\* the same input and output files calls no API and leaves the rows of the
\* output file as they are.
C23_Resume ==
  /\ \A k \in 1..Len(ra_calls) :
       /\ ~C23_InOutput(ra_calls[k])
       /\ k > 1 => ra_calls[k - 1] < ra_calls[k]
  /\ pc = "ra_done" /\ ra_exit = "0" =>
       /\ ra_file.rows = ra_before.rows \o C23_NewRows
       /\ ra_run = 2 => ra_calls = <<>> /\ ra_file = ra_before

\* the second run has ended, on an input of three rows of which two were
\* processed by the first run and one has the address of an earlier row
C23_Witness ==
  /\ pc = "ra_done"
  /\ ra_run = 2
  /\ Len(ra_rows) = 3
  /\ Len(ra_file.rows) = 4
  /\ \A i \in 1..3 : C23_InOutput(i)

\* split_csv has returned and no chunk was processed yet
C24_Returned == pc = "ch_run" /\ ch_attempts = <<>>

\* the data rows of the chunk file at place k of the list returned
C24_DataRows(k) == Tail(ContentOf(ch_files, ch_chunks[k]))

\* the chunk files start with the header, have different names, hold the data
\* rows of the input in their order, and at most size data rows each, every
\* file but the last exactly size
C24_PartitionBy(size) ==
  /\ \A k \in 1..Len(ch_chunks) :
       /\ OnDisk(ch_files, ch_chunks[k])
       /\ Head(ContentOf(ch_files, ch_chunks[k])) = HEADER
       /\ Len(C24_DataRows(k)) \in 1..size
       /\ k < Len(ch_chunks) => Len(C24_DataRows(k)) = size
       /\ \A l \in 1..Len(ch_chunks) : l # k => ch_chunks[l] # ch_chunks[k]
  /\ Concat([k \in 1..Len(ch_chunks) |-> C24_DataRows(k)], 1, Len(ch_chunks)) = ch_rows
  /\ ch_rows = <<>> => ch_chunks = <<>>

\* C24 as stated: the chunk files that split_csv(input_file, chunk_size) returns
\* partition the data rows of the input: each file starts with the header and
\* holds 1..chunk_size data rows, each file but the last holds chunk_size of
\* them, the data rows of the files in the order returned are the data rows of
\* the input in their order, and an input without data rows gives no chunk.
C24_AsStated == C24_Returned => C24_PartitionBy(ch_size)

\* C24: the same partition with chunks of max(chunk_size, 1) data rows: for
\* chunk_size >= 1 as stated, and for chunk_size 0 one data row in each chunk.
C24_Partition == C24_Returned => C24_PartitionBy(Max(ch_size, 1))

\* five data rows in chunks of two: two full chunks and a last one of one row
C24_Witness ==
  /\ C24_Returned
  /\ Len(ch_rows) = 5
  /\ ch_size = 2
  /\ Len(ch_chunks) = 3
  /\ C24_DataRows(3) = <<DataRow(5)>>

\* the places of the chunks whose run ended with exit status 0
C25_Successful == { k \in 1..Len(ch_attempts) : ch_attempts[k].outcome \in {"0", "0, no file"} }

\* the result files of the successful chunks, in chunk order
RECURSIVE C25_ResultFiles(_)
C25_ResultFiles(k) ==
  IF k = 0 THEN <<>>
  ELSE C25_ResultFiles(k - 1) \o (IF k \in C25_Successful THEN <<ResultFile(k)>> ELSE <<>>)

\* the number of chunks whose turn is over
C25_Handled == IF pc = "ch_cleanup" THEN ch_i - 1 ELSE Len(ch_attempts)

\* C25: process_chunks runs the subprocess once for each chunk, in list order;
\* a chunk whose run exits non-zero or raises adds no result file and the
\* following chunks are still run; each chunk file is removed after its run,
\* whatever the outcome; the list returned holds the result files of the
\* successful chunks in chunk order; the delay is waited after every chunk but
\* the last.
C25_Sequential ==
  /\ Len(ch_attempts) <= Len(ch_chunks)
  /\ \A k \in 1..Len(ch_attempts) : ch_attempts[k].file = ch_chunks[k]
  /\ ch_results = C25_ResultFiles(Len(ch_attempts))
  /\ pc \in {"ch_run", "ch_cleanup", "ch_done"} =>
       /\ \A k \in 1..Len(ch_chunks) : OnDisk(ch_files, ch_chunks[k]) <=> k > C25_Handled
       /\ ch_sleeps = [k \in 1..(IF C25_Handled < Len(ch_chunks) THEN C25_Handled
                                  ELSE Len(ch_chunks) - 1) |-> k]
  /\ pc = "ch_done" => Len(ch_attempts) = Len(ch_chunks)

\* three chunks: the first exits with 1, the second raises, the third succeeds
C25_Witness ==
  /\ pc = "ch_done"
  /\ Len(ch_chunks) = 3
  /\ ch_attempts[1].outcome = "1"
  /\ ch_attempts[2].outcome = "raises"
  /\ ch_attempts[3].outcome = "0"
  /\ ch_results = <<ResultFile(3)>>
====
